---- MODULE Spec2Model ----
(***************************************************************************)
(* A model of the translation hub's remote-repository client, metadata     *)
(* store and contribution workflow (src/lib/github.ts, src/lib/config.ts,  *)
(* src/lib/file-processing.ts, src/lib/fork-management.ts and the          *)
(* save-draft / submit routes).                                            *)
(***************************************************************************)
EXTENDS Integers, Sequences, FiniteSets, TLC

(***************************************************************************)
(* Part 1: GitHubClient.request, the retry policy (src/lib/github.ts).     *)
(***************************************************************************)

\* Bound: the largest attempt budget (maxRetries option / retries argument) explored.
MaxBudget == 4

\* The value of an option, argument or header that is absent (JS undefined).
Undefined == -1

\* GitHubClient.constructor defaults (options.maxRetries || 3, options.retryDelay || 1000).
DefaultMaxRetries == 3
DefaultRetryDelay == 1000
RATE_LIMIT_WARNING_THRESHOLD == 100

\* JS `v || d` on an optional number: undefined and 0 are both falsy.
OrDefault(v, d) == IF v = Undefined \/ v = 0 THEN d ELSE v

\* The statuses an attempt of fn can fail with.
FailStatuses == {400, 401, 403, 404, 409, 422, 500, 501, 502, 503, 504}

\* What one invocation of fn can do.  A request that hits the timeout is
\* rejected by the SDK either as a bare error (no status field: Undefined) or
\* wrapped as a status-500 request error, depending on the SDK build.
OkOutcomes ==
  [kind : {"ok"}, status : {200}, remaining : {Undefined, 0, 50, 100}, reset : BOOLEAN]
HttpOutcomes ==
  [kind : {"http"}, status : FailStatuses, remaining : {Undefined}, reset : {FALSE}]
TimeoutOutcomes ==
  [kind : {"timeout"}, status : {Undefined, 500}, remaining : {Undefined}, reset : {FALSE}]
Outcomes == OkOutcomes \cup HttpOutcomes \cup TimeoutOutcomes

\* A mutant of isRetryableStatus: every 5xx status is retried.
isRetryableStatus_any5xx(status) == status >= 500 /\ status <= 599

\* A mutant of isRetryableStatus: 404 is retried as well.
isRetryableStatus_with404(status) == status \in {404, 500, 502, 503, 504}

\* GitHubClient.isRetryableStatus
isRetryableStatus(status) == status \in {500, 502, 503, 504}

\* A mutant of isLastAttempt: off by one, the budget is cut short.
isLastAttempt_early(attempt, maxAttempts) == attempt >= maxAttempts - 2

\* GitHubClient.request: const isLastAttempt = attempt === maxAttempts - 1
isLastAttempt(attempt, maxAttempts) == attempt = maxAttempts - 1

\* GitHubClient.handleError: the userMessages table and its default.
userMessages(status) ==
  CASE status = 401 -> "Your session expired. Please log in again."
    [] status = 403 -> "API rate limit exceeded. Please try again in a few minutes."
    [] status = 404 -> "File or repository not found. Please sync your fork."
    [] status = 409 -> "This file was updated by someone else. Please refresh."
    [] status = 422 -> "Invalid file content. Please check your changes."
    [] status = 500 -> "GitHub is experiencing issues. Your work is saved locally."
    [] OTHER -> "An error occurred. Please try again."

\* GitHubClient.request: isRetryableStatus(errorObj.status || 0)
isRetryable(errStatus) == isRetryableStatus(OrDefault(errStatus, 0))

\* GitHubClient.handleError: status = errorObj.status || 500, then the typed error.
handleError(errStatus) ==
  LET status == OrDefault(errStatus, 500)
  IN  [kind |-> "GitHubError", status |-> status, message |-> userMessages(status)]

\* GitHubClient.checkRateLimits: the warnings one successful response emits.
checkRateLimits(remaining, reset) ==
  (IF remaining # Undefined /\ remaining < RATE_LIMIT_WARNING_THRESHOLD
     THEN <<"Low API quota">> ELSE <<>>)
  \o (IF remaining # Undefined /\ remaining = 0 /\ reset
        THEN <<"Rate limit exceeded">> ELSE <<>>)

\* Math.pow(2, attempt) * this.retryDelay
RECURSIVE Pow2(_)
Pow2(n) == IF n <= 0 THEN 1 ELSE 2 * Pow2(n - 1)
backoffDelay(attempt, retryDelay) == Pow2(attempt) * retryDelay

VARIABLES
  maxRetries,     \* this.maxRetries of the client
  retryDelay,     \* this.retryDelay of the client
  rqPc,           \* "idle" | "calling" | "sleeping" | "returned" | "thrown"
  rqMaxAttempts,  \* maxAttempts of the running request
  rqAttempt,      \* the loop variable attempt
  rqCalls,        \* the outcomes of the invocations of fn so far, in order
  rqDelays,       \* the backoff delays slept so far
  rqWarnings,     \* warnings passed to showWarning
  rqResult        \* what request returned or threw

retryVars ==
  <<maxRetries, retryDelay, rqPc, rqMaxAttempts, rqAttempt, rqCalls, rqDelays,
    rqWarnings, rqResult>>

VARIABLES
  adminToken,  \* whether GITHUB_ADMIN_TOKEN is configured
  metaFile,    \* translation.json on the upstream translation branch
  forkFile,    \* forkFile[u][f]: the working translation of f in u's fork
  prs,         \* the open pull requests of the upstream repository, newest first
  nextPr,      \* the number the next pull request gets
  nextCommit,  \* the id the next commit to a fork gets
  clock,       \* the time, as new Date() reads it
  metaLog,     \* every committed version of metaFile, with the request that wrote it
  forkLog,     \* forkLog[u][f]: every committed write of the file, with its request
  rq           \* rq[r]: the local state of request r

hubVars ==
  <<adminToken, metaFile, forkFile, prs, nextPr, nextCommit, clock, metaLog, forkLog, rq>>

VARIABLES
  forkRepo,    \* whether the user's fork of the upstream repository exists
  forkBranch,  \* the commits of the translation branch in the fork (none: no branch)
  upBranch,    \* the commits of the translation branch upstream (none: no branch)
  ef,          \* ef[c]: the local state of call c of ensureFork
  syncOut      \* what the last checkForkSyncStatus / syncForkWithUpstream gave

forkVars == <<forkRepo, forkBranch, upBranch, ef, syncOut>>

VARIABLES
  srcTip,      \* the tip commit of the upstream source branch
  transFiles,  \* transFiles[f]: the working translation of f on the upstream branch
  tmpFiles,    \* tmpFiles[f]: the machine-translation backup of f on the upstream branch
  il           \* the local state of the call of initializeLanguage

initVars == <<srcTip, transFiles, tmpFiles, il>>

VARIABLES
  sf,          \* the call of sanitizeFilename: its input and what it returned or threw
  tm,          \* the call of translateMarkdown: its input, its output, what was sent out
  um,          \* the calls of updateFileMetadata: the document before and after each
  cs           \* the call of calculateStats: the files mapping and the stats returned

libVars == <<sf, tm, um, cs>>

VARIABLES
  rateLimitStore,  \* the Map of checkRateLimit: identifier -> { count, resetAt }
  dateNow,         \* Date.now()
  rlCalls,         \* every call of checkRateLimit so far, with its result
  rt               \* the requests the routes answered, in order

routeVars == <<rateLimitStore, dateNow, rlCalls, rt>>

vars == <<retryVars, hubVars, forkVars, initVars, libVars, routeVars>>

NoResult == [kind |-> "none", status |-> 0, message |-> ""]

\* new GitHubClient(options): the retry options are optional.
RetryInit ==
  /\ \E opt \in {Undefined} \cup (0..MaxBudget) : maxRetries = OrDefault(opt, DefaultMaxRetries)
  /\ \E opt \in {Undefined, 0, 500} : retryDelay = OrDefault(opt, DefaultRetryDelay)
  /\ rqPc = "idle"
  /\ rqMaxAttempts = 0
  /\ rqAttempt = 0
  /\ rqCalls = <<>>
  /\ rqDelays = <<>>
  /\ rqWarnings = <<>>
  /\ rqResult = NoResult

\* The loop head of request: `attempt < maxAttempts`, else the trailing throw.
LoopHead(attempt, maxAttempts) ==
  IF attempt < maxAttempts
    THEN /\ rqPc' = "calling"
         /\ rqResult' = rqResult
    ELSE /\ rqPc' = "thrown"
         /\ rqResult' = [kind |-> "Error", status |-> 0,
                         message |-> "Unexpected error in request"]

\* request(fn, retries): maxAttempts and the first loop test.
RequestStart ==
  /\ rqPc = "idle"
  /\ \E retries \in {Undefined} \cup (0..MaxBudget) :
       LET maxAttempts == IF retries # Undefined THEN retries ELSE maxRetries
       IN  /\ rqMaxAttempts' = maxAttempts
           /\ rqAttempt' = 0
           /\ LoopHead(0, maxAttempts)
  /\ UNCHANGED <<maxRetries, retryDelay, rqCalls, rqDelays, rqWarnings, hubVars, forkVars,
                 initVars, libVars, routeVars>>

\* One pass of the loop body: await fn(), then return, back off or throw.
RequestAttempt ==
  /\ rqPc = "calling"
  /\ \E o \in Outcomes :
       /\ rqCalls' = Append(rqCalls, o)
       /\ IF o.kind = "ok"
            THEN /\ rqWarnings' = rqWarnings \o checkRateLimits(o.remaining, o.reset)
                 /\ rqResult' = [kind |-> "ok", status |-> o.status, message |-> ""]
                 /\ rqPc' = "returned"
                 /\ UNCHANGED <<rqDelays, rqAttempt>>
            ELSE IF isRetryable(o.status)
                    /\ ~isLastAttempt(rqAttempt, rqMaxAttempts)
                   THEN /\ rqDelays' = Append(rqDelays, backoffDelay(rqAttempt, retryDelay))
                        /\ rqPc' = "sleeping"
                        /\ UNCHANGED <<rqWarnings, rqResult, rqAttempt>>
                   ELSE /\ rqResult' = handleError(o.status)
                        /\ rqPc' = "thrown"
                        /\ UNCHANGED <<rqWarnings, rqDelays, rqAttempt>>
  /\ UNCHANGED <<maxRetries, retryDelay, rqMaxAttempts, hubVars, forkVars, initVars,
                 libVars, routeVars>>

\* The sleep is over: `continue`, attempt++ and the loop test.
RequestBackoff ==
  /\ rqPc = "sleeping"
  /\ rqAttempt' = rqAttempt + 1
  /\ LoopHead(rqAttempt + 1, rqMaxAttempts)
  /\ UNCHANGED <<maxRetries, retryDelay, rqMaxAttempts, rqCalls, rqDelays, rqWarnings,
                 hubVars, forkVars, initVars, libVars, routeVars>>

RetryNext == RequestStart \/ RequestAttempt \/ RequestBackoff

(***************************************************************************)
(* Part 2: the metadata document (src/lib/config.ts, translation-metadata  *)
(* section) as plain data.                                                 *)
(***************************************************************************)

Users == {"alice", "bob"}
\* The project's admin allow-list: who may initialize a language.
Admins == {"alice"}
Files == {"a.md", "b.md"}

\* JS null in a number-valued field (timestamps, commit ids and PR numbers start at 1).
NullNum == 0
\* JS null in a string-valued field.
NullStr == "null"
\* html_url of pull request n; no URL.
PrUrl(n) == <<"pull", n>>
NullUrl == <<>>

RECURSIVE SumWords(_, _)
\* fileArray.reduce((sum, f) => sum + f.wordCount, 0) over the entries named in S
SumWords(files, S) ==
  IF S = {} THEN 0
  ELSE LET f == CHOOSE x \in S : TRUE
       IN  files[f].wordCount + SumWords(files, S \ {f})

\* Math.round(x) of the non-negative rational num/den: half rounds up.
RoundHalfUp(num, den) == (2 * num + den) \div (2 * den)

\* Bound: the number of entries of the largest files mapping.
MaxFiles == 40

\* IEEE 754 binary64, as far as (completed / totalFiles) * 100 needs it.  A
\* double is its 53 significand bits, most significant first, and the exponent
\* of the first of them: the value is the sum of bits[i] * 2^(exp - i + 1).
SignificandBits == 53

\* The bits of r/t after the binary point (0 < r < t), from the first 1 on:
\* `need` of them, with the number of zeros skipped and the remainder left.
RECURSIVE fractionBits(_, _, _, _, _, _)
fractionBits(r, t, need, started, acc, zeros) ==
  IF need = 0 THEN [bits |-> acc, zeros |-> zeros, rem |-> r]
  ELSE LET b == IF 2 * r >= t THEN 1 ELSE 0
           rest == 2 * r - b * t
       IN  IF ~started /\ b = 0
             THEN fractionBits(rest, t, need, FALSE, acc, zeros + 1)
             ELSE fractionBits(rest, t, need - 1, TRUE, Append(acc, b), zeros)

\* Round to nearest, ties to even: the first 53 of the bits, one more when the
\* next bit is 1 and either something follows it or the last kept bit is 1.
roundToDouble(bits, exp, sticky) ==
  LET kept == SubSeq(bits, 1, SignificandBits)
      guard == bits[SignificandBits + 1]
      more == sticky \/ \E i \in (SignificandBits + 2)..Len(bits) : bits[i] = 1
      up == guard = 1 /\ (more \/ kept[SignificandBits] = 1)
      zerosIn == {i \in 1..SignificandBits : kept[i] = 0}
      lastZero == CHOOSE i \in zerosIn : \A j \in zerosIn : j <= i
  IN  IF ~up THEN [bits |-> kept, exp |-> exp]
      ELSE IF zerosIn = {}
        THEN [bits |-> [i \in 1..SignificandBits |-> IF i = 1 THEN 1 ELSE 0], exp |-> exp + 1]
      ELSE [bits |-> [i \in 1..SignificandBits |->
                        IF i < lastZero THEN kept[i] ELSE IF i = lastZero THEN 1 ELSE 0],
            exp |-> exp]

\* completed / totalFiles for 0 < completed < totalFiles
divide(completed, totalFiles) ==
  LET q == fractionBits(completed, totalFiles, SignificandBits + 1, FALSE, <<>>, 0)
  IN  roundToDouble(q.bits, -(q.zeros + 1), q.rem # 0)

RECURSIVE binary(_)
\* The bits of a positive integer.
binary(v) == IF v = 0 THEN <<>> ELSE Append(binary(v \div 2), v % 2)

RECURSIVE toInteger(_)
toInteger(bits) ==
  IF bits = <<>> THEN 0 ELSE 2 * toInteger(SubSeq(bits, 1, Len(bits) - 1)) + bits[Len(bits)]

\* x * 100: the exact product of the significand, bit by bit from the last
\* one, then rounded to a double.
times100(x) ==
  LET n == Len(x.bits)
      carry[i \in 0..n] ==
        IF i = 0 THEN 0 ELSE (x.bits[n - i + 1] * 100 + carry[i - 1]) \div 2
      low == [i \in 1..n |-> (x.bits[i] * 100 + carry[n - i]) % 2]
      product == binary(carry[n]) \o low
  IN  roundToDouble(product \o <<0>>, x.exp + (Len(product) - n), FALSE)

\* Math.round of a positive double below 2^53: its integer part, one more when
\* the fraction is a half or more.
mathRound(x) ==
  LET whole == IF x.exp >= 0 THEN toInteger(SubSeq(x.bits, 1, x.exp + 1)) ELSE 0
      half == IF x.exp >= -1 THEN x.bits[x.exp + 2] ELSE 0
  IN  whole + half

\* Math.round((completed / totalFiles) * 100); 0 / n is 0 and n / n is 1, exactly.
roundedPercent(completed, totalFiles) ==
  IF completed = 0 THEN 0
  ELSE IF completed = totalFiles THEN 100
  ELSE mathRound(times100(divide(completed, totalFiles)))

\* The values of roundedPercent, computed once.
PercentTable ==
  [t \in 1..MaxFiles |-> [c \in 0..t |-> roundedPercent(c, t)]]

\* totalFiles > 0 ? Math.round((completed / totalFiles) * 100) : 0
percentComplete(completed, totalFiles) ==
  IF totalFiles > 0 THEN PercentTable[totalFiles][completed] ELSE 0

\* A mutant of calculateStats: the words of every file count as translated.
calculateStats_allTranslated(files) ==
  LET names == DOMAIN files
      totalFiles == Cardinality(names)
      completed == Cardinality({f \in names : files[f].status = "complete"})
  IN  [totalFiles |-> totalFiles,
       completed |-> completed,
       inProgress |-> Cardinality({f \in names : files[f].status = "in-progress"}),
       notStarted |-> Cardinality({f \in names : files[f].status = "not-started"}),
       percentComplete |-> percentComplete(completed, totalFiles),
       totalWords |-> SumWords(files, names),
       translatedWords |-> SumWords(files, names),
       contributors |-> {files[f].lastContributor : f \in names} \ {NullStr}]

\* calculateStats
calculateStats(files) ==
  LET names == DOMAIN files
      totalFiles == Cardinality(names)
      completed == Cardinality({f \in names : files[f].status = "complete"})
      inProgress == Cardinality({f \in names : files[f].status = "in-progress"})
      notStarted == Cardinality({f \in names : files[f].status = "not-started"})
  IN  [totalFiles |-> totalFiles,
       completed |-> completed,
       inProgress |-> inProgress,
       notStarted |-> notStarted,
       percentComplete |->
         percentComplete(completed, totalFiles),
       totalWords |-> SumWords(files, names),
       translatedWords |-> SumWords(files, {f \in names : files[f].status = "complete"}),
       contributors |-> {files[f].lastContributor : f \in names} \ {NullStr}]

\* The entry createInitialTranslationMetadata gives every enumerated file.
InitialEntry ==
  [status |-> "not-started", lastUpdated |-> NullNum, lastContributor |-> NullStr,
   lastCommitSha |-> NullNum, prNumber |-> NullNum, prUrl |-> NullUrl,
   wordCount |-> 0, machineTranslated |-> TRUE, humanReviewed |-> FALSE]

\* A mutant of DefaultEntry: the entry of a file initializeLanguage translated.
DefaultEntry_machineTranslated == InitialEntry

\* The entry updateFileMetadata synthesizes for a file that has none.
DefaultEntry ==
  [status |-> "not-started", lastUpdated |-> NullNum, lastContributor |-> NullStr,
   lastCommitSha |-> NullNum, prNumber |-> NullNum, prUrl |-> NullUrl,
   wordCount |-> 0, machineTranslated |-> FALSE, humanReviewed |-> FALSE]

\* createInitialTranslationMetadata: the stats are written out literally.
createInitialTranslationMetadata(coordinator, files, sourceCommitSha, now) ==
  [coordinator |-> coordinator,
   initialized |-> now,
   lastUpdated |-> now,
   files |-> [f \in files |-> InitialEntry],
   stats |-> [totalFiles |-> Cardinality(files), completed |-> 0, inProgress |-> 0,
              notStarted |-> Cardinality(files), percentComplete |-> 0,
              totalWords |-> 0, translatedWords |-> 0, contributors |-> {}],
   sourceCommitSha |-> sourceCommitSha]

\* countWords of the source text of a file (the texts are fixed, so are the counts).
countWords(file) == IF file = "a.md" THEN 2 ELSE 3

RECURSIVE wordCountPass(_, _)
\* initializeLanguage, "Update word counts": for every file whose source could be
\* read (those in S), files[name].wordCount = n and stats.totalWords += n.
wordCountPass(metadata, S) ==
  IF S = {} THEN metadata
  ELSE LET f == CHOOSE x \in S : TRUE
           n == countWords(f)
           m == [metadata EXCEPT !.files[f].wordCount = n,
                                 !.stats.totalWords = @ + n]
       IN  wordCountPass(m, S \ {f})

\* A mutant of Merge: a word count of the update is added to the entry's.
Merge_adding(entry, updates) ==
  [k \in DOMAIN entry |->
     IF k \notin DOMAIN updates THEN entry[k]
     ELSE IF k = "wordCount" THEN entry[k] + updates[k] ELSE updates[k]]

\* { ...entry, ...updates }: the fields of updates override those of entry.
Merge(entry, updates) ==
  [k \in DOMAIN entry |-> IF k \in DOMAIN updates THEN updates[k] ELSE entry[k]]

\* A mutant of updateFileMetadata: the stats are carried over, not recomputed.
updateFileMetadata_staleStats(metadata, filename, updates, now) ==
  LET base == IF filename \in DOMAIN metadata.files
                THEN metadata.files[filename] ELSE DefaultEntry
      entry == [Merge(base, updates) EXCEPT !.lastUpdated = now]
      updatedFiles == [f \in DOMAIN metadata.files \cup {filename} |->
                         IF f = filename THEN entry ELSE metadata.files[f]]
  IN  [metadata EXCEPT !.files = updatedFiles, !.lastUpdated = now]

\* updateFileMetadata
updateFileMetadata(metadata, filename, updates, now) ==
  LET base == IF filename \in DOMAIN metadata.files
                THEN metadata.files[filename] ELSE DefaultEntry
      entry == [Merge(base, updates) EXCEPT !.lastUpdated = now]
      updatedFiles == [f \in DOMAIN metadata.files \cup {filename} |->
                         IF f = filename THEN entry ELSE metadata.files[f]]
  IN  [metadata EXCEPT !.files = updatedFiles,
                       !.stats = calculateStats(updatedFiles),
                       !.lastUpdated = now]

\* markFileInProgress: the partial update it applies.
inProgressUpdate(contributor, commitSha) ==
  [status |-> "in-progress", lastContributor |-> contributor, lastCommitSha |-> commitSha]

\* A mutant of completeUpdate: the pull request is not recorded.
completeUpdate_withoutPR(contributor, commitSha, prNumber, prUrl) ==
  [status |-> "complete", lastContributor |-> contributor, lastCommitSha |-> commitSha,
   humanReviewed |-> TRUE]

\* markFileComplete: the partial update it applies.
completeUpdate(contributor, commitSha, prNumber, prUrl) ==
  [status |-> "complete", lastContributor |-> contributor, lastCommitSha |-> commitSha,
   prNumber |-> prNumber, prUrl |-> prUrl, humanReviewed |-> TRUE]


(***************************************************************************)
(* Part 3: the hosting platform (files with blob SHAs, pull requests) and  *)
(* the requests that race on it: save-draft, submit, initialize-language.  *)
(***************************************************************************)

\* Bounds: how many requests are made in all, and how many may overlap.
NumRequests == 2
MaxConcurrent == 2

Requests == 1..NumRequests
Contents == {"c0", "c1"}

\* getTranslationBranchName(languageCode), and some other branch of a fork.
Branch == "translations/es"
OtherBranch == "patch-1"
\* The tip of the source branch the language is initialized from.
SourceTip == "src-tip"

\* A file of a repository is <<>> (absent) or <<content>>.  Its SHA is the
\* blob SHA, a collision-free hash of the content; NoSha is null / undefined.
Sha(content) == <<"blob", content>>
NoSha == <<>>
ShaOf(file) == IF file = <<>> THEN NoSha ELSE Sha(file[1])

\* The platform's answer to PUT contents (octokit.repos.createOrUpdateFileContents)
\* with the expected SHA `sha`: 201 created, 200 updated, 409 when the SHA does
\* not match the file's blob SHA, 422 when an existing file is written without one.
putStatus(file, sha) ==
  IF file = <<>>
    THEN (IF sha = NoSha THEN 201 ELSE 409)
    ELSE IF sha = NoSha THEN 422
         ELSE IF sha = Sha(file[1]) THEN 200 ELSE 409
Committed(status) == status \in {200, 201}

\* What a remote call that fails for good (after its retries) is thrown as.
TransientFailures == {500}

\* Texts the error mapping of withErrorHandling looks into.
includesNotFound(text) ==
  text \in {"File or repository not found. Please sync your fork.",
            "Translation metadata not found",
            "Language not found: "}
startsWithUnauthorized(text) == text \in {"Unauthorized: Admin access required"}
startsWithValidationError(text) ==
  text \in {"Validation error: filename: Invalid filename",
            "Validation error: force: Expected boolean"}

\* withErrorHandling: the HTTP status an error thrown by a route handler is answered
\* with.  A message is the sequence of its parts (a wrapped error prefixes one).
withErrorHandling(message) ==
  IF message = <<"Authentication required">> THEN 401
  ELSE IF startsWithUnauthorized(message[1]) THEN 403
  ELSE IF startsWithValidationError(message[1]) THEN 400
  ELSE IF \E i \in 1..Len(message) : includesNotFound(message[i]) THEN 404
  ELSE 500

\* What the checks before the first remote call of a route can throw.
PreflightErrors == {<<"Authentication required">>}

NoResponse ==
  [sent |-> FALSE, success |-> FALSE, http |-> 0, commitSha |-> NullNum,
   prNumber |-> NullNum, prUrl |-> NullUrl, message |-> <<>>]
\* A mutant of errorResponse: the failure is answered as a success.
errorResponse_success(message) ==
  [NoResponse EXCEPT !.sent = TRUE, !.success = TRUE, !.http = 200, !.message = message]

errorResponse(message) ==
  [NoResponse EXCEPT !.sent = TRUE, !.http = withErrorHandling(message), !.message = message]
draftResponse(commitSha) ==
  [NoResponse EXCEPT !.sent = TRUE, !.success = TRUE, !.http = 200, !.commitSha = commitSha,
                     !.message = <<"Draft saved successfully">>]
prResponse(existing, prNumber, prUrl) ==
  [NoResponse EXCEPT !.sent = TRUE, !.success = TRUE, !.http = 200,
                     !.prNumber = prNumber, !.prUrl = prUrl,
                     !.message = IF existing THEN <<"Changes added to existing pull request">>
                                 ELSE <<"Pull request created successfully">>]
initResponse ==
  [NoResponse EXCEPT !.sent = TRUE, !.success = TRUE, !.http = 200]

\* A mutant of getExistingPR: the head branch is matched, the author is not.
findUserPR_anyAuthor(prList, username, branchName) ==
  LET hits == {i \in 1..Len(prList) : prList[i].ref = branchName}
  IN  IF hits = {} THEN <<>>
      ELSE <<prList[CHOOSE i \in hits : \A j \in hits : i <= j]>>

\* getExistingPR: prs.data.find(pr => pr.head.ref === branchName &&
\* pr.head.user?.login === username), the first match in list order.
findUserPR(prList, username, branchName) ==
  LET hits == {i \in 1..Len(prList) :
                 prList[i].ref = branchName /\ prList[i].user = username}
  IN  IF hits = {} THEN <<>>
      ELSE <<prList[CHOOSE i \in hits : \A j \in hits : i <= j]>>


IdleRequest ==
  [pc |-> "idle", kind |-> "none", user |-> NullStr, file |-> NullStr, content |-> NullStr,
   sources |-> {},
   forkGet |-> 0, forkSha |-> NoSha, forkShaAt |-> 0,
   forkPut |-> 0, forkWriteAt |-> 0, commitSha |-> NullNum,
   prGet |-> 0, prSeen |-> NullNum, prExisting |-> FALSE, prNumber |-> NullNum,
   prUrl |-> NullUrl, prCreated |-> NullNum,
   metaGet |-> 0, metaError |-> <<>>, updated |-> <<>>, loadedAt |-> 0,
   metaShaGet |-> 0, metaSha |-> NoSha, metaShaAt |-> 0,
   metaPut |-> 0, metaWriteAt |-> 0,
   response |-> NoResponse]

\* The fields of rq[r], beside the request's parameters and its pc:
\*   forkGet, forkPut, prGet, metaGet, metaShaGet, metaPut: the status the remote
\*     call ended with (0: not made): getFileSha's read, the content write, the
\*     listing of getExistingPR, loadTranslationMetadata's read, saveTranslationMetadata's read and write;
\*   forkSha, metaSha: the SHA each read gave; commitSha: response.data.commit.sha;
\*   metaError: what markFileInProgress / markFileComplete threw before saving;
\*   updated: the document to save; prNumber, prUrl, prExisting: the route's locals;
\*   forkShaAt, forkWriteAt, loadedAt, metaShaAt, metaWriteAt: how many versions
\*     of the file had been committed when the call was served; prSeen: the open
\*     pull request of the user's translation branch when the listing was served;
\*     prCreated: the pull request this request created.

\* The document an earlier initialize-language wrote (at time 1, every source read).
InitializedDoc ==
  wordCountPass(createInitialTranslationMetadata("alice", Files, SourceTip, 1), Files)

\* A fork as ensureFork and initializeLanguage left it: the machine translation
\* of a.md, nothing yet for b.md.
InitialFork(f) == IF f = "a.md" THEN <<"c0">> ELSE <<>>

\* The language is initialized (by request 0, before the requests of the model)
\* or not; every fork holds the machine translation "c0" of a.md and nothing yet
\* for b.md; alice has an unrelated pull request open, bob one of his
\* translation branch.
HubInit ==
  /\ adminToken \in BOOLEAN
  /\ \/ metaFile = <<>> /\ metaLog = <<>>
     \/ metaFile = <<InitializedDoc>> /\ metaLog = <<[by |-> 0, doc |-> InitializedDoc]>>
  /\ forkFile = [u \in Users |-> [f \in Files |-> InitialFork(f)]]
  /\ prs = <<[number |-> 2, ref |-> Branch, user |-> "bob"],
             [number |-> 1, ref |-> OtherBranch, user |-> "alice"]>>
  /\ nextPr = 3
  /\ nextCommit = 1
  /\ clock = 2
  /\ forkLog = [u \in Users |-> [f \in Files |-> <<>>]]
  /\ rq = [r \in Requests |-> IdleRequest]

Running == {r \in Requests : rq[r].pc \notin {"idle", "done"}}
CanStart(r) ==
  /\ rq[r].pc = "idle"
  /\ IF r = 1 THEN TRUE ELSE rq[r - 1].pc # "idle"
  /\ Cardinality(Running) < MaxConcurrent

\* rq with the named fields of request r replaced.
With(r, fields) == [rq EXCEPT ![r] = Merge(@, fields)]
\* Request r ends: its response is sent.
Done(r, fields, response) ==
  [rq EXCEPT ![r] = Merge(@, [pc |-> "done", response |-> response] @@ fields)]


(***************************************************************************)
(* The routes.  Every action is one remote call of a request together     *)
(* with the code that runs up to the next remote call.                     *)
(***************************************************************************)

\* POST save-draft (dashboard/route.ts) and POST submit (pr/route.ts) up to
\* saveFileToFork: authentication, validation, sanitizing.
StartContribution(r, kind) ==
  /\ CanStart(r)
  /\ \/ \E u \in Users, f \in Files, c \in Contents :
          rq' = With(r, [pc |-> "forkSha", kind |-> kind, user |-> u, file |-> f,
                         content |-> c])
     \/ \E e \in PreflightErrors :
          rq' = Done(r, [kind |-> kind], errorResponse(e))
  /\ UNCHANGED <<retryVars, libVars, routeVars, forkVars, initVars, adminToken, metaFile, forkFile, prs, nextPr, nextCommit, clock, metaLog,
                 forkLog>>

StartDraft(r) == StartContribution(r, "draft")
StartSubmit(r) == StartContribution(r, "submit")

\* initializeLanguage up to "Step 5": the source files it enumerated.
StartInit(r) ==
  /\ CanStart(r)
  /\ \E u \in Admins, S \in {{"a.md"}, Files} :
       rq' = With(r, [pc |-> "initBuild", kind |-> "init", user |-> u, sources |-> S])
  /\ UNCHANGED <<retryVars, libVars, routeVars, forkVars, initVars, adminToken, metaFile, forkFile, prs, nextPr, nextCommit, clock, metaLog,
                 forkLog>>

\* saveFileToFork, first half: getFileSha (a 404 gives null, another error is thrown).
ForkFetchSha(r) ==
  /\ rq[r].pc = "forkSha"
  /\ LET u == rq[r].user
         f == rq[r].file
     IN  \/ rq' = With(r, [pc |-> "forkWrite", forkSha |-> ShaOf(forkFile[u][f]),
                           forkGet |-> IF forkFile[u][f] = <<>> THEN 404 ELSE 200,
                           forkShaAt |-> Len(forkLog[u][f])])
         \/ \E st \in TransientFailures :
              rq' = Done(r, [forkGet |-> st],
                         errorResponse(<<handleError(st).message>>))
  /\ UNCHANGED <<retryVars, libVars, routeVars, forkVars, initVars, adminToken, metaFile, forkFile, prs, nextPr, nextCommit, clock, metaLog,
                 forkLog>>

\* What follows the pull-request step of submit, and the content write of
\* save-draft: the metadata update if an admin token is configured, else the response.
AfterContent(r, fields, response) ==
  IF adminToken
    THEN rq' = With(r, [pc |-> "metaLoad"] @@ fields)
    ELSE rq' = Done(r, fields, response)

\* A mutant of the expected SHA of saveFileToFork: the SHA is read again when writing.
forkExpectedSha_fresh(fetched, current) == ShaOf(current)

\* saveFileToFork: the SHA passed on is the one getFileSha fetched (sha || undefined).
forkExpectedSha(fetched, current) == fetched

\* saveFileToFork, second half: createOrUpdateFile with the fetched SHA.
ForkWrite(r) ==
  /\ rq[r].pc = "forkWrite"
  /\ LET u == rq[r].user
         f == rq[r].file
         at == [forkWriteAt |-> Len(forkLog[u][f])]
         st == putStatus(forkFile[u][f], forkExpectedSha(rq[r].forkSha, forkFile[u][f]))
     IN  \/ /\ Committed(st)
            /\ forkFile' = [forkFile EXCEPT ![u][f] = <<rq[r].content>>]
            /\ forkLog' = [forkLog EXCEPT ![u][f] =
                             Append(@, [by |-> r, content |-> rq[r].content])]
            /\ nextCommit' = nextCommit + 1
            /\ LET got == at @@ [forkPut |-> st, commitSha |-> nextCommit]
               IN  IF rq[r].kind = "submit"
                     THEN rq' = With(r, [pc |-> "prLookup"] @@ got)
                     ELSE AfterContent(r, got, draftResponse(nextCommit))
         \/ /\ ~Committed(st)
            /\ rq' = Done(r, at @@ [forkPut |-> st],
                          errorResponse(<<handleError(st).message>>))
            /\ UNCHANGED <<forkFile, forkLog, nextCommit>>
         \/ \E fail \in TransientFailures :
              /\ rq' = Done(r, at @@ [forkPut |-> fail],
                            errorResponse(<<handleError(fail).message>>))
              /\ UNCHANGED <<forkFile, forkLog, nextCommit>>
  /\ UNCHANGED <<retryVars, libVars, routeVars, forkVars, initVars, adminToken, metaFile, prs, nextPr, clock, metaLog>>

\* The open pull request of u's translation branch, as the platform knows it.
OpenPR(u) ==
  LET hits == {i \in 1..Len(prs) : prs[i].ref = Branch /\ prs[i].user = u}
  IN  IF hits = {} THEN NullNum ELSE prs[CHOOSE i \in hits : TRUE].number

\* submit: getExistingPR (a failure of the listing is logged and gives null).
PrLookup(r) ==
  /\ rq[r].pc = "prLookup"
  /\ LET seen == [prGet |-> 200, prSeen |-> OpenPR(rq[r].user)]
         found == findUserPR(prs, rq[r].user, Branch)
     IN  \/ /\ found # <<>>
            /\ LET n == found[1].number
               IN  AfterContent(r, seen @@ [prExisting |-> TRUE, prNumber |-> n,
                                            prUrl |-> PrUrl(n)],
                                prResponse(TRUE, n, PrUrl(n)))
         \/ /\ found = <<>>
            /\ rq' = With(r, [pc |-> "prCreate"] @@ seen)
         \/ \E fail \in TransientFailures :
              rq' = With(r, [pc |-> "prCreate", prGet |-> fail] @@ seen)
  /\ UNCHANGED <<retryVars, libVars, routeVars, forkVars, initVars, adminToken, metaFile, forkFile, prs, nextPr, nextCommit, clock, metaLog,
                 forkLog>>

\* submit: createPullRequest.  The platform refuses (422) a second open pull
\* request for the same head and base; any failure is rethrown as
\* "Failed to create pull request: ...".
PrCreate(r) ==
  /\ rq[r].pc = "prCreate"
  /\ \/ /\ OpenPR(rq[r].user) = NullNum
        /\ prs' = <<[number |-> nextPr, ref |-> Branch, user |-> rq[r].user]>> \o prs
        /\ nextPr' = nextPr + 1
        /\ AfterContent(r, [prNumber |-> nextPr, prUrl |-> PrUrl(nextPr),
                            prCreated |-> nextPr],
                        prResponse(FALSE, nextPr, PrUrl(nextPr)))
     \/ /\ OpenPR(rq[r].user) # NullNum
        /\ rq' = Done(r, <<>>, errorResponse(<<"Failed to create pull request: ",
                                               handleError(422).message>>))
        /\ UNCHANGED <<prs, nextPr>>
     \/ \E fail \in TransientFailures :
          /\ rq' = Done(r, <<>>, errorResponse(<<"Failed to create pull request: ",
                                                 handleError(fail).message>>))
          /\ UNCHANGED <<prs, nextPr>>
  /\ UNCHANGED <<retryVars, libVars, routeVars, forkVars, initVars, adminToken, metaFile, forkFile, nextCommit, clock, metaLog, forkLog>>

\* The response of a contribution whose content write (and pull request) is done:
\* it does not depend on what became of the metadata update.
contributionResponse(r) ==
  IF rq[r].kind = "submit"
    THEN prResponse(rq[r].prExisting, rq[r].prNumber, rq[r].prUrl)
    ELSE draftResponse(rq[r].commitSha)

\* markFileInProgress / markFileComplete: the update applied to the loaded document.
markUpdate(r) ==
  IF rq[r].kind = "submit"
    THEN completeUpdate(rq[r].user, rq[r].commitSha, rq[r].prNumber, rq[r].prUrl)
    ELSE inProgressUpdate(rq[r].user, rq[r].commitSha)

\* A mutant of loadTranslationMetadata: a 404 is thrown like any other failure.
loadTranslationMetadata_strict(status, file) ==
  IF status = 200
    THEN [kind |-> "value", value |-> file, message |-> <<>>]
    ELSE [kind |-> "thrown", value |-> <<>>, message |-> <<handleError(status).message>>]

\* loadTranslationMetadata on the status its read ended with: the document, null
\* (no value) for a 404, and any other failure thrown on.
loadTranslationMetadata(status, file) ==
  IF status = 200
    THEN [kind |-> "value", value |-> file, message |-> <<>>]
  ELSE IF status = 404
    THEN [kind |-> "value", value |-> <<>>, message |-> <<>>]
  ELSE [kind |-> "thrown", value |-> <<>>, message |-> <<handleError(status).message>>]

\* markFileInProgress / markFileComplete: what they throw before any save, if
\* anything: the failure of the load, or `if (!metadata) throw ...`.
markError(loaded) ==
  IF loaded.kind = "thrown" THEN loaded.message
  ELSE IF loaded.value = <<>> THEN <<"Translation metadata not found">>
  ELSE <<>>

\* markFileInProgress / markFileComplete, first part: loadTranslationMetadata,
\* the test for null, and updateFileMetadata.  The route catches and logs
\* whatever is thrown.
MetaLoad(r) ==
  /\ rq[r].pc = "metaLoad"
  /\ \E status \in {IF metaFile = <<>> THEN 404 ELSE 200} \cup TransientFailures :
       LET loaded == loadTranslationMetadata(status, metaFile)
       IN  rq' = IF markError(loaded) = <<>>
                   THEN With(r, [pc |-> "metaSha", metaGet |-> status,
                                 loadedAt |-> Len(metaLog),
                                 updated |-> <<updateFileMetadata(loaded.value[1], rq[r].file,
                                                                  markUpdate(r), clock)>>])
                   ELSE Done(r, [metaGet |-> status, metaError |-> markError(loaded)],
                             contributionResponse(r))
  /\ clock' = clock + 1
  /\ UNCHANGED <<retryVars, libVars, routeVars, forkVars, initVars, adminToken, metaFile, forkFile, prs, nextPr, nextCommit, metaLog, forkLog>>

\* initializeLanguage, "Step 5": createInitialTranslationMetadata and the word
\* counts of the source files that could be read.
InitBuild(r) ==
  /\ rq[r].pc = "initBuild"
  /\ \E readable \in SUBSET rq[r].sources :
       rq' = With(r, [pc |-> "metaSha", loadedAt |-> Len(metaLog),
                      updated |-> <<wordCountPass(
                        createInitialTranslationMetadata(rq[r].user, rq[r].sources,
                                                         SourceTip, clock),
                        readable)>>])
  /\ clock' = clock + 1
  /\ UNCHANGED <<retryVars, libVars, routeVars, forkVars, initVars, adminToken, metaFile, forkFile, prs, nextPr, nextCommit, metaLog, forkLog>>

\* A mutant of the SHA saveTranslationMetadata uses: the SHA of the version the
\* caller loaded (none for initializeLanguage, which loads nothing).
fetchedMetaSha_ofLoaded(r) ==
  IF rq[r].kind = "init" \/ rq[r].loadedAt = 0
    THEN NoSha
    ELSE Sha(metaLog[rq[r].loadedAt].doc)

\* saveTranslationMetadata: the SHA is the one of the document as it is when
\* the save begins, whatever version the caller had loaded.
fetchedMetaSha(r) == ShaOf(metaFile)

\* A mutant of the response after the metadata write: a failed write fails the
\* request of a contribution too.
afterMetaWrite_strict(r, status) ==
  IF Committed(status)
    THEN IF rq[r].kind = "init" THEN initResponse
         ELSE IF rq[r].kind = "submit"
                THEN prResponse(rq[r].prExisting, rq[r].prNumber, rq[r].prUrl)
                ELSE draftResponse(rq[r].commitSha)
    ELSE errorResponse(<<IF rq[r].kind = "init" THEN "Failed to initialize language: "
                         ELSE "Failed to update metadata: ",
                         handleError(status).message>>)

\* saveTranslationMetadata, first half: the SHA of the existing document; any
\* error of this read is swallowed and leaves the SHA undefined.
MetaFetchSha(r) ==
  /\ rq[r].pc = "metaSha"
  /\ \/ rq' = With(r, [pc |-> "metaWrite", metaSha |-> fetchedMetaSha(r),
                       metaShaGet |-> IF metaFile = <<>> THEN 404 ELSE 200,
                       metaShaAt |-> Len(metaLog)])
     \/ \E fail \in TransientFailures :
          rq' = With(r, [pc |-> "metaWrite", metaSha |-> NoSha, metaShaGet |-> fail,
                         metaShaAt |-> Len(metaLog)])
  /\ UNCHANGED <<retryVars, libVars, routeVars, forkVars, initVars, adminToken, metaFile, forkFile, prs, nextPr, nextCommit, clock, metaLog,
                 forkLog>>

\* A mutant of the expected SHA of saveTranslationMetadata: the SHA is read
\* again when writing.
metaExpectedSha_fresh(fetched, current) == ShaOf(current)

\* saveTranslationMetadata: the SHA passed on is the one fetched just before.
metaExpectedSha(fetched, current) == fetched

\* The response once the metadata write is over: initializeLanguage rethrows a
\* failure ('Failed to initialize language: ...'), the contribution routes log it.
afterMetaWrite(r, status) ==
  IF rq[r].kind = "init"
    THEN IF Committed(status) THEN initResponse
         ELSE errorResponse(<<"Failed to initialize language: ",
                              handleError(status).message>>)
    ELSE contributionResponse(r)

\* saveTranslationMetadata, second half: createOrUpdateFile of the whole document.
MetaWrite(r) ==
  /\ rq[r].pc = "metaWrite"
  /\ LET at == [metaWriteAt |-> Len(metaLog)]
         st == putStatus(metaFile, metaExpectedSha(rq[r].metaSha, metaFile))
     IN  \/ /\ Committed(st)
            /\ metaFile' = rq[r].updated
            /\ metaLog' = Append(metaLog, [by |-> r, doc |-> rq[r].updated[1]])
            /\ rq' = Done(r, at @@ [metaPut |-> st], afterMetaWrite(r, st))
         \/ /\ ~Committed(st)
            /\ rq' = Done(r, at @@ [metaPut |-> st], afterMetaWrite(r, st))
            /\ UNCHANGED <<metaFile, metaLog>>
         \/ \E fail \in TransientFailures :
              /\ rq' = Done(r, at @@ [metaPut |-> fail], afterMetaWrite(r, fail))
              /\ UNCHANGED <<metaFile, metaLog>>
  /\ UNCHANGED <<retryVars, libVars, routeVars, forkVars, initVars, adminToken, forkFile, prs, nextPr, nextCommit, clock, forkLog>>

HubNext ==
  \E r \in Requests :
    \/ StartDraft(r)
    \/ StartSubmit(r)
    \/ StartInit(r)
    \/ ForkFetchSha(r)
    \/ ForkWrite(r)
    \/ PrLookup(r)
    \/ PrCreate(r)
    \/ MetaLoad(r)
    \/ InitBuild(r)
    \/ MetaFetchSha(r)
    \/ MetaWrite(r)

\* The save-draft and submit requests served one after the other: a request
\* starts only when no other is being served.
SerialStartDraft(r) == Running = {} /\ StartDraft(r)
SerialStartSubmit(r) == Running = {} /\ StartSubmit(r)
SerialNext ==
  \E r \in Requests :
    \/ SerialStartDraft(r)
    \/ SerialStartSubmit(r)
    \/ ForkFetchSha(r)
    \/ ForkWrite(r)
    \/ PrLookup(r)
    \/ PrCreate(r)
    \/ MetaLoad(r)
    \/ MetaFetchSha(r)
    \/ MetaWrite(r)

(***************************************************************************)
(* Part 5: fork management (src/lib/fork-management.ts): ensureFork,       *)
(* checkForkSyncStatus, syncForkWithUpstream.                              *)
(***************************************************************************)

\* Bound: the commits a translation branch can hold.
MaxCommits == 3
\* Bound: the overlapping calls of ensureFork for one user and language.
NumCalls == 2

Commits == 1..MaxCommits
Calls == 1..NumCalls
\* A branch is the set of the commits reachable from its tip; no branch: no commit.
NoBranch == {}
Branches == SUBSET Commits \ {NoBranch}

\* The platform's compare of base...head: ahead_by counts the commits of head
\* missing from base, behind_by the commits of base missing from head; a count
\* the response omits is undefined.
compareCommits(base, head, omitAhead, omitBehind) ==
  [ahead_by |-> IF omitAhead THEN Undefined ELSE Cardinality(head \ base),
   behind_by |-> IF omitBehind THEN Undefined ELSE Cardinality(base \ head)]

\* A mutant of the classification: a fork that lacks commits is behind even
\* when it has commits of its own.
classify_behindFirst(behindBy, aheadBy) ==
  IF behindBy = 0 /\ aheadBy = 0 THEN "identical"
  ELSE IF behindBy > 0 THEN "behind"
  ELSE "ahead"

\* checkForkSyncStatus: the if / else-if chain over behindBy and aheadBy.
classify(behindBy, aheadBy) ==
  IF behindBy = 0 /\ aheadBy = 0 THEN "identical"
  ELSE IF behindBy > 0 /\ aheadBy = 0 THEN "behind"
  ELSE IF behindBy = 0 /\ aheadBy > 0 THEN "ahead"
  ELSE "diverged"

\* checkForkSyncStatus on the comparison the platform answered.
checkForkSyncStatus(comparison) ==
  LET behindBy == OrDefault(comparison.behind_by, 0)
      aheadBy == OrDefault(comparison.ahead_by, 0)
  IN  [kind |-> "status", status |-> classify(behindBy, aheadBy),
       behindBy |-> behindBy, aheadBy |-> aheadBy]

\* getForkStatus: needsSync = syncStatus.behindBy > 0
needsSync(syncStatus) == syncStatus.behindBy > 0

\* html URL of the compare page of the fork's branch.
ConflictUrl == <<"compare", Branch>>

\* A mutant of syncForkWithUpstream: a 422 is taken for a conflict too.
syncForkWithUpstream_also422(status) ==
  IF status = 200
    THEN [kind |-> "result", success |-> TRUE, conflicts |-> FALSE, conflictUrl |-> NullUrl,
          message |-> <<>>]
  ELSE IF status \in {409, 422}
    THEN [kind |-> "result", success |-> FALSE, conflicts |-> TRUE,
          conflictUrl |-> ConflictUrl, message |-> <<>>]
  ELSE [kind |-> "thrown", success |-> FALSE, conflicts |-> FALSE, conflictUrl |-> NullUrl,
        message |-> <<"Failed to sync fork: ", handleError(status).message>>]

\* syncForkWithUpstream on the status the merge-upstream call ended with.
syncForkWithUpstream(status) ==
  IF status = 200
    THEN [kind |-> "result", success |-> TRUE, conflicts |-> FALSE, conflictUrl |-> NullUrl,
          message |-> <<>>]
  ELSE IF status = 409
    THEN [kind |-> "result", success |-> FALSE, conflicts |-> TRUE,
          conflictUrl |-> ConflictUrl, message |-> <<>>]
  ELSE [kind |-> "thrown", success |-> FALSE, conflicts |-> FALSE, conflictUrl |-> NullUrl,
        message |-> <<"Failed to sync fork: ", handleError(status).message>>]

\* The statuses the merge-upstream call can end with: 200 when the branches
\* merge, 409 when they conflict (only branches that diverged can), 404 when a
\* branch is missing, 422 or 500 whenever the platform refuses or fails.
mergeStatuses(fork, upstream) ==
  IF fork = NoBranch \/ upstream = NoBranch THEN {404, 500}
  ELSE {200, 422, 500}
         \cup (IF fork \ upstream # {} /\ upstream \ fork # {} THEN {409} ELSE {})

NoSyncOut == [op |-> "none"]

IdleCall ==
  [pc |-> "idle", hasBranch |-> FALSE, upstreamSha |-> NoBranch, created |-> NoBranch,
   existed |-> FALSE, upstreamMissing |-> FALSE]

\* The fork exists or not, with or without the branch; the upstream branch
\* exists or not.
ForkInit ==
  /\ forkRepo \in BOOLEAN
  /\ forkBranch \in (IF forkRepo THEN Branches \cup {NoBranch} ELSE {NoBranch})
  /\ upBranch \in Branches \cup {NoBranch}
  /\ ef = [c \in Calls |-> IdleCall]
  /\ syncOut = NoSyncOut

\* checkForkSyncStatus: compareCommits(base = fork's branch, head = upstream's
\* branch); any failure is rethrown as 'Failed to check sync status: ...'.
CheckSync ==
  /\ \/ /\ forkBranch # NoBranch /\ upBranch # NoBranch
        /\ \E omitAhead, omitBehind \in BOOLEAN :
             LET comparison == compareCommits(forkBranch, upBranch, omitAhead, omitBehind)
                 out == checkForkSyncStatus(comparison)
             IN  syncOut' = [op |-> "check", comparison |-> comparison, out |-> out,
                             omitted |-> omitAhead \/ omitBehind,
                             needsSync |-> needsSync(out),
                             base |-> forkBranch, head |-> upBranch]
     \/ \E fail \in {404} \cup TransientFailures :
          /\ fail = 404 => (forkBranch = NoBranch \/ upBranch = NoBranch)
          /\ syncOut' = [op |-> "check-thrown",
                         message |-> <<"Failed to check sync status: ",
                                       handleError(fail).message>>]
  /\ UNCHANGED <<retryVars, libVars, routeVars, hubVars, initVars, forkRepo, forkBranch, upBranch, ef>>

\* syncForkWithUpstream: mergeUpstream, which on success brings the upstream
\* commits into the fork's branch.
SyncFork ==
  /\ \E status \in mergeStatuses(forkBranch, upBranch) :
       /\ syncOut' = [op |-> "sync", status |-> status, out |-> syncForkWithUpstream(status)]
       /\ forkBranch' = IF status = 200 THEN forkBranch \cup upBranch ELSE forkBranch
  /\ UNCHANGED <<retryVars, libVars, routeVars, hubVars, initVars, forkRepo, upBranch, ef>>

\* Call c of ensureFork goes on with the named locals.
Call(c, fields) == [ef EXCEPT ![c] = Merge(@, fields)]
\* Call c of ensureFork returns its ForkInfo; `exists` is whether the branch
\* is in the fork at that moment.
Return(c, hasBranch, exists, fields) ==
  [ef EXCEPT ![c] = Merge(@, [pc |-> "returned", hasBranch |-> hasBranch,
                              existed |-> exists] @@ fields)]

\* ensureFork: getFork (a 404 gives null, another failure is thrown).
EnsureGetFork(c) ==
  /\ ef[c].pc = "idle"
  /\ \/ ef' = Call(c, [pc |-> IF forkRepo THEN "getBranch" ELSE "createFork"])
     \/ \E fail \in TransientFailures : ef' = Call(c, [pc |-> "thrown"])
  /\ UNCHANGED <<retryVars, libVars, routeVars, hubVars, initVars, forkRepo, forkBranch, upBranch, syncOut>>

\* ensureFork: createFork and the wait.  A new fork has the branches of the
\* upstream repository; forking again gives the fork that exists.
EnsureCreateFork(c) ==
  /\ ef[c].pc = "createFork"
  /\ \/ /\ ef' = Call(c, [pc |-> "getBranch"])
        /\ forkRepo' = TRUE
        /\ forkBranch' = IF forkRepo THEN forkBranch ELSE upBranch
     \/ \E fail \in TransientFailures :
          /\ ef' = Call(c, [pc |-> "thrown"])
          /\ UNCHANGED <<forkRepo, forkBranch>>
  /\ UNCHANGED <<retryVars, libVars, routeVars, hubVars, initVars, upBranch, syncOut>>

\* ensureFork: getBranch on the fork; a 404 goes on to create the branch, any
\* other failure is thrown.
EnsureGetBranch(c) ==
  /\ ef[c].pc = "getBranch"
  /\ \/ /\ forkBranch # NoBranch
        /\ ef' = Return(c, TRUE, TRUE, <<>>)
     \/ /\ forkBranch = NoBranch
        /\ ef' = Call(c, [pc |-> "getUpstream"])
     \/ \E fail \in TransientFailures : ef' = Call(c, [pc |-> "thrown"])
  /\ UNCHANGED <<retryVars, libVars, routeVars, hubVars, initVars, forkRepo, forkBranch, upBranch, syncOut>>

\* ensureFork: getBranch on the upstream repository; whatever it throws is
\* caught and logged, and hasBranch stays false.
EnsureGetUpstream(c) ==
  /\ ef[c].pc = "getUpstream"
  /\ \/ /\ upBranch # NoBranch
        /\ ef' = Call(c, [pc |-> "createBranch", upstreamSha |-> upBranch])
     \/ /\ upBranch = NoBranch
        /\ ef' = Return(c, FALSE, forkBranch # NoBranch, [upstreamMissing |-> TRUE])
     \/ \E fail \in TransientFailures :
          ef' = Return(c, FALSE, forkBranch # NoBranch, <<>>)
  /\ UNCHANGED <<retryVars, libVars, routeVars, hubVars, initVars, forkRepo, forkBranch, upBranch, syncOut>>

\* ensureFork: createBranch at the upstream tip; the platform refuses (422) a
\* reference that exists; whatever is thrown is caught and logged.
EnsureCreateBranch(c) ==
  /\ ef[c].pc = "createBranch"
  /\ \/ /\ forkBranch = NoBranch
        /\ forkBranch' = ef[c].upstreamSha
        /\ ef' = Return(c, TRUE, TRUE, [created |-> ef[c].upstreamSha])
     \/ /\ forkBranch # NoBranch
        /\ ef' = Return(c, FALSE, TRUE, <<>>)
        /\ UNCHANGED forkBranch
     \/ \E fail \in TransientFailures :
          /\ ef' = Return(c, FALSE, forkBranch # NoBranch, <<>>)
          /\ UNCHANGED forkBranch
  /\ UNCHANGED <<retryVars, libVars, routeVars, hubVars, initVars, forkRepo, upBranch, syncOut>>

ForkNext ==
  \/ CheckSync
  \/ SyncFork
  \/ \E c \in Calls :
       \/ EnsureGetFork(c)
       \/ EnsureCreateFork(c)
       \/ EnsureGetBranch(c)
       \/ EnsureGetUpstream(c)
       \/ EnsureCreateBranch(c)

(***************************************************************************)
(* Part 6: initializeLanguage (src/lib/file-processing.ts) call by call:   *)
(* the source branch, the translation branch, the per-file loop, the       *)
(* metadata document and the result.                                       *)
(***************************************************************************)

\* getSourceFiles sorts the matching files by name (no priority files).
FileOrder == <<"a.md", "b.md">>

\* The history of the source branch: commit k changes one file, a.md the odd
\* commits and b.md the even ones; a file is there from its first commit on.
TouchedBy(k) == IF k % 2 = 1 THEN "a.md" ELSE "b.md"
RevisionsAt(k, f) == {j \in 1..k : TouchedBy(j) = f}
\* The platform's directory listing of the source folder at commit k.
getDirectoryContents(k) == {f \in Files : RevisionsAt(k, f) # {}}
\* The platform's content of source file f at commit k: its last revision.
getFileContent(k, f) ==
  <<f, CHOOSE j \in RevisionsAt(k, f) : \A i \in RevisionsAt(k, f) : i <= j>>

\* getSourceFiles: the files of the listing, sorted.
getSourceFiles(k) == SelectSeq(FileOrder, LAMBDA f : f \in getDirectoryContents(k))

\* translateMarkdown: the text in the target language.
translateMarkdown(content, languageCode) == <<languageCode>> \o content

\* A mutant of step 2: no failure of createBranch is let through.
branchExists_never(status) == FALSE

\* initializeLanguage, step 2: `if (error.status !== 422) throw error`.
branchExists(status) == status = 422

\* The commit `project.sourceBranch` names when a read is served: the tip.
sourceRef(sourceCommitSha, tip) == tip

\* `https://github.com/${owner}/${repo}/tree/${branchName}`
BranchUrl == <<"tree", Branch>>

\* A mutant of the result: success as soon as one file was processed.
initializeResult_anyProcessed(filesProcessed, errors) ==
  [kind |-> "result", success |-> filesProcessed > 0, filesProcessed |-> filesProcessed,
   errors |-> errors, branchUrl |-> BranchUrl, message |-> <<>>]

\* initializeLanguage: the InitializeLanguageResult it returns.
initializeResult(filesProcessed, errors) ==
  [kind |-> "result", success |-> Len(errors) = 0, filesProcessed |-> filesProcessed,
   errors |-> errors, branchUrl |-> BranchUrl, message |-> <<>>]

\* initializeLanguage: the outer catch rethrows whatever aborted it.
initializeThrown(cause) ==
  [kind |-> "thrown", success |-> FALSE, filesProcessed |-> 0, errors |-> <<>>,
   branchUrl |-> NullUrl, message |-> <<"Failed to initialize language: ", cause>>]

NoInitResult ==
  [kind |-> "none", success |-> FALSE, filesProcessed |-> 0, errors |-> <<>>,
   branchUrl |-> NullUrl, message |-> <<>>]

\* POST admin init: the status it answers a result with.
adminInitStatus(result) == IF ~result.success THEN 207 ELSE 200

\* The locals of the call of initializeLanguage and what it did so far:
\*   override: options.sourceCommit (0: none); sourceCommitSha: step 1's commit;
\*   branchStatus: the status createBranch ended with (0: not called);
\*   files, idx: sourceFiles and the position of the loop; content,
\*   translatedContent: the locals of the iteration; errors, filesProcessed;
\*   events: what onProgress was called with, in order; reads: the reads of the
\*   source served so far, with the commit they were served at; writes: the
\*   files committed to the translation branch; metadata: the document of step
\*   5; metaSha, metaPut: the SHA and the status of saveTranslationMetadata;
\*   thrownAt: the step that aborted the call; result: what it returned or threw.
IdleInit ==
  [pc |-> "idle", override |-> 0, coordinator |-> NullStr, sourceCommitSha |-> 0,
   branchStatus |-> 0, files |-> <<>>, idx |-> 0, content |-> <<>>,
   translatedContent |-> <<>>, errors |-> <<>>, filesProcessed |-> 0, events |-> <<>>,
   reads |-> <<>>, writes |-> <<>>, metadata |-> <<>>, metaSha |-> NoSha, metaPut |-> 0,
   thrownAt |-> "", result |-> NoInitResult]

\* il with the named locals replaced.
Il(fields) == Merge(il, fields)
\* initializeLanguage is aborted: the outer catch rethrows.
IlThrow(fields, cause) ==
  Merge(il, [pc |-> "thrown", thrownAt |-> il.pc, result |-> initializeThrown(cause)]
            @@ fields)

\* The loop goes to iteration i: onProgress 'translating' for its file, or,
\* past the last file, on to step 5.
enterFile(l, i) ==
  IF i > Len(l.files)
    THEN Merge(l, [pc |-> "build", idx |-> i, content |-> <<>>, translatedContent |-> <<>>])
    ELSE Merge(l, [pc |-> "fetch", idx |-> i, content |-> <<>>, translatedContent |-> <<>>,
                   events |-> Append(l.events, [filename |-> l.files[i],
                                                status |-> "translating"])])

\* A mutant of the catch of the loop body: the failure of a file aborts the call.
fileFailed_aborts(l, cause) ==
  Merge(l, [pc |-> "thrown", thrownAt |-> l.pc, result |-> initializeThrown(cause)])

\* The catch of the loop body: one entry of errors, onProgress 'error', and on
\* to the next file.
fileFailed(l, cause) ==
  LET f == l.files[l.idx]
  IN  enterFile(Merge(l, [errors |-> Append(l.errors, <<"Failed to process ", f, cause>>),
                          events |-> Append(l.events, [filename |-> f,
                                                       status |-> "error"])]),
                l.idx + 1)

\* A mutant of the end of the loop body: the next file is started before this
\* one is reported.
fileDone_earlyNext(l) ==
  LET f == l.files[l.idx]
      next == enterFile(Merge(l, [filesProcessed |-> l.filesProcessed + 1]), l.idx + 1)
  IN  Merge(next, [events |-> Append(next.events, [filename |-> f, status |-> "complete"])])

\* The end of the loop body: filesProcessed++, onProgress 'complete', next file.
fileDone(l) ==
  LET f == l.files[l.idx]
  IN  enterFile(Merge(l, [filesProcessed |-> l.filesProcessed + 1,
                          events |-> Append(l.events, [filename |-> f,
                                                       status |-> "complete"])]),
                l.idx + 1)

\* The source branch has one commit or more; the translation branch does not
\* exist, or an earlier initialization left it with or without the translation
\* of a.md; the metadata document is there or not.
InitInit ==
  /\ srcTip \in 1..(MaxCommits - 1)
  /\ \E done \in BOOLEAN :
       /\ transFiles = [f \in Files |-> IF done /\ f = "a.md" THEN <<<<"es", f, 1>>>> ELSE <<>>]
       /\ tmpFiles = transFiles
       /\ upBranch \in (IF done THEN {{1}} ELSE {NoBranch, {1}})
  /\ il = IdleInit

\* Someone pushes a commit to the source branch.
SourcePush ==
  /\ srcTip < MaxCommits
  /\ srcTip' = srcTip + 1
  /\ UNCHANGED <<retryVars, libVars, routeVars, hubVars, forkVars, transFiles, tmpFiles, il>>

\* initializeLanguage, step 1: getBranch(options.sourceCommit ||
\* project.sourceBranch) and the commit it resolves to.
InitGetBranch ==
  /\ il.pc = "idle"
  /\ \E override \in 0..srcTip :
       LET args == [override |-> override, coordinator |-> "alice"]
       IN  \/ il' = Il([pc |-> "createBranch",
                        sourceCommitSha |-> IF override # 0 THEN override ELSE srcTip]
                       @@ args)
           \/ \E fail \in {404} \cup TransientFailures :
                il' = IlThrow(args, handleError(fail).message)
  /\ UNCHANGED <<retryVars, libVars, routeVars, hubVars, forkVars, srcTip, transFiles, tmpFiles>>

\* initializeLanguage, step 2: createBranch at sourceCommitSha; the platform
\* answers 422 for a branch that exists.
InitCreateBranch ==
  /\ il.pc = "createBranch"
  /\ \/ /\ upBranch = NoBranch
        /\ upBranch' = 1..il.sourceCommitSha
        /\ il' = Il([pc |-> "enumerate", branchStatus |-> 201])
     \/ \E status \in {404, 422} \cup TransientFailures :
          /\ status = 422 => upBranch # NoBranch
          /\ il' = IF branchExists(status)
                     THEN Il([pc |-> "enumerate", branchStatus |-> status])
                     ELSE IlThrow([branchStatus |-> status], handleError(status).message)
          /\ UNCHANGED upBranch
  /\ UNCHANGED <<retryVars, libVars, routeVars, hubVars, forkRepo, forkBranch, ef, syncOut, srcTip, transFiles,
                 tmpFiles>>

\* initializeLanguage, step 3 and the head of step 4: getSourceFiles at
\* project.sourceBranch, then the check of the translation service.
InitEnumerate ==
  /\ il.pc = "enumerate"
  /\ LET at == sourceRef(il.sourceCommitSha, srcTip)
         served == Append(il.reads, [file |-> "", commit |-> at])
     IN  \/ \E available \in BOOLEAN :
              il' = IF available
                      THEN enterFile(Il([files |-> getSourceFiles(at), reads |-> served]), 1)
                      ELSE IlThrow([files |-> getSourceFiles(at), reads |-> served],
                                   "Translation service not available. Check DEEPL_API_KEY.")
         \/ \E fail \in TransientFailures : il' = IlThrow(<<>>, handleError(fail).message)
  /\ UNCHANGED <<retryVars, libVars, routeVars, hubVars, forkVars, srcTip, transFiles, tmpFiles>>

\* The loop body: getFileContentAsText(file.path, project.sourceBranch).
InitFetch ==
  /\ il.pc = "fetch"
  /\ LET f == il.files[il.idx]
         at == sourceRef(il.sourceCommitSha, srcTip)
     IN  \/ il' = Il([pc |-> "translate", content |-> getFileContent(at, f),
                      reads |-> Append(il.reads, [file |-> f, commit |-> at])])
         \/ \E fail \in TransientFailures : il' = fileFailed(il, handleError(fail).message)
  /\ UNCHANGED <<retryVars, libVars, routeVars, hubVars, forkVars, srcTip, transFiles, tmpFiles>>

\* The loop body: translateMarkdown(content, languageCode).
InitTranslate ==
  /\ il.pc = "translate"
  /\ \/ il' = Il([pc |-> "write", translatedContent |-> translateMarkdown(il.content, "es")])
     \/ il' = fileFailed(il, "Translation failed")
  /\ UNCHANGED <<retryVars, libVars, routeVars, hubVars, forkVars, srcTip, transFiles, tmpFiles>>

\* The loop body: createOrUpdateFile of the working translation, without a SHA.
InitWrite ==
  /\ il.pc = "write"
  /\ LET f == il.files[il.idx]
         st == putStatus(transFiles[f], NoSha)
     IN  \/ /\ Committed(st)
            /\ transFiles' = [transFiles EXCEPT ![f] = <<il.translatedContent>>]
            /\ il' = Il([pc |-> "backup",
                         writes |-> Append(il.writes, [file |-> f, folder |-> "work"])])
         \/ /\ ~Committed(st)
            /\ il' = fileFailed(il, handleError(st).message)
            /\ UNCHANGED transFiles
         \/ \E fail \in TransientFailures :
              /\ il' = fileFailed(il, handleError(fail).message)
              /\ UNCHANGED transFiles
  /\ UNCHANGED <<retryVars, libVars, routeVars, hubVars, forkVars, srcTip, tmpFiles>>

\* The loop body: createOrUpdateFile of the machine-translation backup, then
\* filesProcessed++ and onProgress 'complete'.
InitBackup ==
  /\ il.pc = "backup"
  /\ LET f == il.files[il.idx]
         st == putStatus(tmpFiles[f], NoSha)
     IN  \/ /\ Committed(st)
            /\ tmpFiles' = [tmpFiles EXCEPT ![f] = <<il.translatedContent>>]
            /\ il' = fileDone(Il([writes |-> Append(il.writes,
                                                   [file |-> f, folder |-> "tmp"])]))
         \/ /\ ~Committed(st)
            /\ il' = fileFailed(il, handleError(st).message)
            /\ UNCHANGED tmpFiles
         \/ \E fail \in TransientFailures :
              /\ il' = fileFailed(il, handleError(fail).message)
              /\ UNCHANGED tmpFiles
  /\ UNCHANGED <<retryVars, libVars, routeVars, hubVars, forkVars, srcTip, transFiles>>

\* initializeLanguage, step 5: createInitialTranslationMetadata, the word
\* counts of the files whose source could be read again, and the first half of
\* saveTranslationMetadata (the SHA of the document; a failed read leaves none).
InitBuildMetadata ==
  /\ il.pc = "build"
  /\ \E readable \in SUBSET {il.files[i] : i \in 1..Len(il.files)}, shaRead \in BOOLEAN :
       il' = Il([pc |-> "save",
                 metadata |-> <<wordCountPass(
                   createInitialTranslationMetadata(
                     il.coordinator, {il.files[i] : i \in 1..Len(il.files)},
                     il.sourceCommitSha, clock),
                   readable)>>,
                 metaSha |-> IF shaRead THEN ShaOf(metaFile) ELSE NoSha])
  /\ UNCHANGED <<retryVars, libVars, routeVars, hubVars, forkVars, srcTip, transFiles, tmpFiles>>

\* saveTranslationMetadata, second half, and the return of initializeLanguage;
\* a failed write is rethrown by the outer catch.
InitSave ==
  /\ il.pc = "save"
  /\ LET st == putStatus(metaFile, metaExpectedSha(il.metaSha, metaFile))
         returned == [pc |-> "returned",
                      result |-> initializeResult(il.filesProcessed, il.errors)]
     IN  \/ /\ Committed(st)
            /\ metaFile' = il.metadata
            /\ metaLog' = Append(metaLog, [by |-> 0, doc |-> il.metadata[1]])
            /\ il' = Il([metaPut |-> st] @@ returned)
         \/ /\ ~Committed(st)
            /\ il' = IlThrow([metaPut |-> st], handleError(st).message)
            /\ UNCHANGED <<metaFile, metaLog>>
         \/ \E fail \in TransientFailures :
              /\ il' = IlThrow([metaPut |-> fail], handleError(fail).message)
              /\ UNCHANGED <<metaFile, metaLog>>
  /\ UNCHANGED <<retryVars, libVars, routeVars, forkVars, srcTip, transFiles, tmpFiles, adminToken, forkFile,
                 prs, nextPr, nextCommit, clock, forkLog, rq>>

InitNext ==
  \/ SourcePush
  \/ InitGetBranch
  \/ InitCreateBranch
  \/ InitEnumerate
  \/ InitFetch
  \/ InitTranslate
  \/ InitWrite
  \/ InitBackup
  \/ InitBuildMetadata
  \/ InitSave

(***************************************************************************)
(* Part 7: the input checks of src/lib/validation.ts: sanitizeFilename and *)
(* the filename schema.  A string is the sequence of its characters.       *)
(***************************************************************************)

\* Bound: the length of the file names given to sanitizeFilename.
MaxNameLen == 4

\* The characters of the names: letters, the dot, both separators, the blank.
Alphabet == {"a", "m", "d", ".", "/", "\\", " "}
RECURSIVE StringsOfLen(_)
StringsOfLen(n) ==
  IF n = 0 THEN {<<>>}
  ELSE {Append(s, c) : s \in StringsOfLen(n - 1), c \in Alphabet}
Names == UNION {StringsOfLen(n) : n \in 0..MaxNameLen}

\* The greatest element of a non-empty set of numbers.
Last(S) == CHOOSE i \in S : \A j \in S : j <= i

\* path.basename: the part after the last '/', trailing '/' dropped.
basename(p) ==
  LET kept == {i \in 1..Len(p) : p[i] # "/"}
  IN  IF kept = {} THEN <<>>
      ELSE LET end == Last(kept)
               slashes == {i \in 1..end : p[i] = "/"}
               start == IF slashes = {} THEN 1 ELSE Last(slashes) + 1
           IN  SubSeq(p, start, end)

\* String.prototype.includes for a one-character and the two-character needle.
includesChar(p, c) == \E i \in 1..Len(p) : p[i] = c
includesDotDot(p) == \E i \in 1..(Len(p) - 1) : p[i] = "." /\ p[i + 1] = "."
\* p.trim() === ''
isBlank(p) == \A i \in 1..Len(p) : p[i] = " "

returned(value) == [kind |-> "returned", value |-> value, message |-> ""]
thrown(message) == [kind |-> "thrown", value |-> <<>>, message |-> message]

\* A mutant of sanitizeFilename: the name is reduced to its basename, which is
\* then checked and returned.
sanitizeFilename_truncating(filename) ==
  LET normalized == basename(filename)
  IN  IF includesDotDot(normalized) \/ includesChar(normalized, "/")
           \/ includesChar(normalized, "\\")
        THEN thrown("Invalid filename: contains prohibited characters")
      ELSE IF normalized = <<>> \/ isBlank(normalized)
        THEN thrown("Invalid filename: cannot be empty")
      ELSE returned(normalized)

\* sanitizeFilename
sanitizeFilename(filename) ==
  LET normalized == basename(filename)
  IN  IF normalized # filename
        THEN thrown("Invalid filename: path traversal detected")
      ELSE IF includesDotDot(normalized) \/ includesChar(normalized, "/")
                \/ includesChar(normalized, "\\")
        THEN thrown("Invalid filename: contains prohibited characters")
      ELSE IF normalized = <<>> \/ isBlank(normalized)
        THEN thrown("Invalid filename: cannot be empty")
      ELSE returned(normalized)

\* filenameSchema: /^[a-zA-Z0-9_.-]+\.md$/
filenameSchema(filename) ==
  /\ Len(filename) >= 4
  /\ SubSeq(filename, Len(filename) - 2, Len(filename)) = <<".", "m", "d">>
  /\ \A i \in 1..Len(filename) : filename[i] \in {"a", "m", "d", "."}

NotCalled == [called |-> FALSE]

\* sanitizeFilename is about to be called with some name.
SanitizeInit == sf \in {[called |-> FALSE, input |-> p] : p \in Names}

\* The call of sanitizeFilename.
Sanitize ==
  /\ ~sf.called
  /\ sf' = [called |-> TRUE, input |-> sf.input, out |-> sanitizeFilename(sf.input)]
  /\ UNCHANGED <<retryVars, hubVars, forkVars, initVars, routeVars, tm, um, cs>>

SanitizeNext == Sanitize

(***************************************************************************)
(* Part 8: the routes up to their first remote call (authentication,       *)
(* validation, admin check, rate limit) and the responses of               *)
(* src/lib/api-utils.ts to what a handler throws.                          *)
(***************************************************************************)

\* An Error a route handler throws: its message (the sequence of its parts),
\* name and stack, and what threw it.
Err(origin, name, message) ==
  [origin |-> origin, name |-> name, message |-> message, stack |-> <<"at", name, message>>]

\* createErrorResponse: the details are left out in production.
createErrorResponse(code, message, status, details, isProduction) ==
  [success |-> FALSE, status |-> status, code |-> code, message |-> message,
   details |-> IF isProduction THEN <<>> ELSE details]

unauthorized(isProduction) ==
  createErrorResponse("UNAUTHORIZED", <<"Authentication required">>, 401, <<>>, isProduction)
forbidden(message, isProduction) ==
  createErrorResponse("FORBIDDEN", message, 403, <<>>, isProduction)
notFound(message, isProduction) ==
  createErrorResponse("NOT_FOUND", message, 404, <<>>, isProduction)
validationError(message, isProduction) ==
  createErrorResponse("VALIDATION_ERROR", message, 400, <<>>, isProduction)
rateLimitExceeded(resetAt, isProduction) ==
  createErrorResponse("RATE_LIMIT_EXCEEDED", <<"Rate limit exceeded">>, 429,
                      <<[resetAt |-> resetAt]>>, isProduction)

\* A mutant of internalError: the message of the error is sent in every mode.
internalError_verbose(error, isProduction) ==
  createErrorResponse("INTERNAL_ERROR", error.message, 500,
                      <<[stack |-> error.stack, name |-> error.name]>>, isProduction)

\* internalError
internalError(error, isProduction) ==
  createErrorResponse("INTERNAL_ERROR",
                      IF isProduction THEN <<"An internal error occurred">> ELSE error.message,
                      500,
                      IF isProduction THEN <<>>
                      ELSE <<[stack |-> error.stack, name |-> error.name]>>,
                      isProduction)

\* withErrorHandling, the catch: the response to the error the handler threw.
errorHandlingResponse(error, isProduction) ==
  IF error.message = <<"Authentication required">> THEN unauthorized(isProduction)
  ELSE IF startsWithUnauthorized(error.message[1]) THEN forbidden(error.message, isProduction)
  ELSE IF startsWithValidationError(error.message[1])
    THEN validationError(error.message, isProduction)
  ELSE IF \E i \in 1..Len(error.message) : includesNotFound(error.message[i])
    THEN notFound(error.message, isProduction)
  ELSE internalError(error, isProduction)

\* What the routes and the library under them throw besides the rejections of
\* authentication, authorization, validation and not-found: failures of the
\* platform as GitHubClient reports them, bare or wrapped, configuration and
\* service errors, and errors of the runtime.
InternalErrors ==
  {Err("remote", "GitHubError", <<userMessages(st)>>) : st \in {401, 403, 409, 422, 500}}
    \cup {Err("remote", "Error", <<prefix, userMessages(st)>>) :
            prefix \in {"Failed to initialize language: ", "Failed to create pull request: ",
                        "Failed to sync fork: "},
            st \in {403, 422, 500}}
    \cup {Err("internal", "Error", <<"Translation service not available. Check DEEPL_API_KEY.">>),
          Err("internal", "Error", <<"Invalid JSON in request body">>),
          Err("internal", "Error", <<"Unexpected error in request">>),
          Err("internal", "ConfigError",
              <<"Failed to load project config: ", "Unexpected token } in JSON at position 12">>),
          Err("internal", "TypeError",
              <<"Cannot read properties of undefined (reading 'files')">>)}

\* The rejections the handlers throw on purpose.
Rejections ==
  {Err("authentication", "Error", <<"Authentication required">>),
   Err("authentication", "Error", <<"Authentication required: Access token not available">>),
   Err("authorization", "Error", <<"Unauthorized: Admin access required">>),
   Err("validation", "Error", <<"Validation error: filename: Invalid filename">>),
   Err("validation", "Error", <<"Invalid filename: path traversal detected">>),
   Err("not-found", "Error", <<"Translation metadata not found">>),
   Err("not-found", "GitHubError", <<userMessages(404)>>),
   Err("not-found", "Error", <<"Failed to initialize language: ", userMessages(404)>>)}

\* The names the routes are requested with: a good one, one with '..' that the
\* schema lets through, a traversal, and a name that is no markdown file.
RouteNames ==
  {<<"a", ".", "m", "d">>, <<"a", ".", ".", "m", "d">>,
   <<".", ".", "/", "a", ".", "m", "d">>, <<"a", ".", "d">>}

\* POST save-draft, POST submit and GET file up to the first remote call: what
\* the handler throws, if anything.  The body of a POST is validated against
\* the schema; the name of GET file comes from the URL and is only sanitized.
\* The language configuration is looked up before the body is read.
contributionPreflight(route, session, token, languageKnown, filename) ==
  IF ~session THEN <<Err("authentication", "Error", <<"Authentication required">>)>>
  ELSE IF ~token
    THEN <<Err("authentication", "Error",
               <<"Authentication required: Access token not available">>)>>
  ELSE IF ~languageKnown
    THEN <<Err("not-found", "Error", <<"Language not found: ", "xx">>)>>
  ELSE IF route # "get-file" /\ ~filenameSchema(filename)
    THEN <<Err("validation", "Error", <<"Validation error: filename: Invalid filename">>)>>
  ELSE IF sanitizeFilename(filename).kind = "thrown"
    THEN <<Err("validation", "Error", <<sanitizeFilename(filename).message>>)>>
  ELSE <<>>

NoBody == [success |-> TRUE, status |-> 0, code |-> "", message |-> <<>>, details |-> <<>>]

\* A request of save-draft, submit or get-file, up to its first remote call or
\* to the response of withErrorHandling.
Contribute ==
  /\ \E route \in {"save-draft", "submit", "get-file"},
        session, token, languageKnown, isProduction \in BOOLEAN, filename \in RouteNames :
       LET err == contributionPreflight(route, session, token, languageKnown, filename)
       IN  rt' = [op |-> "contribution", route |-> route, session |-> session,
                  token |-> token, languageKnown |-> languageKnown,
                  filename |-> filename, production |-> isProduction,
                  error |-> err,
                  response |-> IF err = <<>> THEN NoBody
                               ELSE errorHandlingResponse(err[1], isProduction),
                  remoteCalls |-> err = <<>>]
  /\ UNCHANGED <<retryVars, hubVars, forkVars, initVars, libVars, rateLimitStore, dateNow,
                 rlCalls>>

\* Two requests whose handlers throw, answered in the same deployment mode.
RouteThrows ==
  /\ \E first, second \in InternalErrors \cup Rejections, isProduction \in BOOLEAN :
       rt' = [op |-> "thrown", production |-> isProduction, errors |-> <<first, second>>,
              responses |-> <<errorHandlingResponse(first, isProduction),
                              errorHandlingResponse(second, isProduction)>>]
  /\ UNCHANGED <<retryVars, hubVars, forkVars, initVars, libVars, rateLimitStore, dateNow,
                 rlCalls>>

\* Bounds: how far the clock goes, in steps of a third of the window of the
\* initialize-language route, and how many calls of checkRateLimit are made.
MaxTicks == 4
MaxCalls == 7

\* POST admin init: checkRateLimit(`init:${user.username}`, 5, 60 * 60 * 1000)
InitLimit == 5
InitWindowMs == 60 * 60 * 1000
TickMs == InitWindowMs \div 3

\* A mutant of checkRateLimit: the call that reaches the limit is refused.
checkRateLimit_offByOne(store, identifier, limit, windowMs, t) ==
  IF identifier \notin DOMAIN store \/ store[identifier].resetAt < t
    THEN [result |-> [success |-> TRUE, limit |-> limit, remaining |-> limit - 1,
                      reset |-> t + windowMs],
          store |-> (identifier :> [count |-> 1, resetAt |-> t + windowMs]) @@ store]
    ELSE LET existing == [store[identifier] EXCEPT !.count = @ + 1]
         IN  [result |-> IF existing.count >= limit
                           THEN [success |-> FALSE, limit |-> limit, remaining |-> 0,
                                 reset |-> existing.resetAt]
                           ELSE [success |-> TRUE, limit |-> limit,
                                 remaining |-> limit - existing.count,
                                 reset |-> existing.resetAt],
              store |-> [store EXCEPT ![identifier] = existing]]

\* checkRateLimit at time t (Date.now()): its result and the store it leaves.
\* An entry whose resetAt is before t is deleted and a new window is opened;
\* otherwise the count of the entry is incremented, then compared.
checkRateLimit(store, identifier, limit, windowMs, t) ==
  IF identifier \notin DOMAIN store \/ store[identifier].resetAt < t
    THEN [result |-> [success |-> TRUE, limit |-> limit, remaining |-> limit - 1,
                      reset |-> t + windowMs],
          store |-> (identifier :> [count |-> 1, resetAt |-> t + windowMs]) @@ store]
    ELSE LET existing == [store[identifier] EXCEPT !.count = @ + 1]
         IN  [result |-> IF existing.count > limit
                           THEN [success |-> FALSE, limit |-> limit, remaining |-> 0,
                                 reset |-> existing.resetAt]
                           ELSE [success |-> TRUE, limit |-> limit,
                                 remaining |-> limit - existing.count,
                                 reset |-> existing.resetAt],
              store |-> [store EXCEPT ![identifier] = existing]]

\* The calls of checkRateLimit made so far, as rlCalls keeps them.
logCall(identifier, limit, windowMs, t, result) ==
  Append(rlCalls, [identifier |-> identifier, limit |-> limit, windowMs |-> windowMs,
                   t |-> t, result |-> result])

\* Time passes.
Tick ==
  /\ dateNow < MaxTicks * TickMs
  /\ dateNow' = dateNow + TickMs
  /\ UNCHANGED <<retryVars, hubVars, forkVars, initVars, libVars, rateLimitStore, rlCalls, rt>>

\* What initializeLanguage can come to, as the route sees it.
InitOutcomes ==
  {initializeResult(1, <<>>),
   initializeResult(0, <<<<"Failed to process ", "a.md", userMessages(500)>>>>),
   initializeThrown(userMessages(500))}

\* A mutant of isProjectAdmin: every user is an admin.
isProjectAdmin_anyone(username) == TRUE

\* isProjectAdmin: the user is named in ADMIN_USERS.
isProjectAdmin(username) == username \in Admins

\* POST admin init: requireAuth, the admin check, the rate limit, the language
\* configuration, the request body, the admin token, then initializeLanguage
\* and the response to what it came to.
AdminInit ==
  /\ Len(rlCalls) < MaxCalls
  /\ \E session, isProduction, languageKnown, bodyValid, tokenSet \in BOOLEAN,
        user \in Users, outcome \in InitOutcomes :
       LET limited == checkRateLimit(rateLimitStore, <<"init:", user>>, InitLimit,
                                     InitWindowMs, dateNow)
           request == [op |-> "admin", session |-> session, user |-> user,
                       production |-> isProduction, storeBefore |-> rateLimitStore,
                       limited |-> FALSE, initialized |-> FALSE, response |-> NoBody]
       IN  IF ~session
             THEN /\ rt' = [request EXCEPT
                              !.response = errorHandlingResponse(
                                Err("authentication", "Error", <<"Authentication required">>),
                                isProduction)]
                  /\ UNCHANGED <<rateLimitStore, rlCalls>>
           ELSE IF ~isProjectAdmin(user)
             THEN /\ rt' = [request EXCEPT
                              !.response = forbidden(
                                <<"Admin access required for language initialization">>,
                                isProduction)]
                  /\ UNCHANGED <<rateLimitStore, rlCalls>>
           ELSE /\ rateLimitStore' = limited.store
                /\ rlCalls' = logCall(<<"init:", user>>, InitLimit, InitWindowMs, dateNow,
                                      limited.result)
                /\ rt' = IF ~limited.result.success
                           THEN [request EXCEPT
                                   !.limited = TRUE,
                                   !.response = rateLimitExceeded(limited.result.reset,
                                                                  isProduction)]
                         ELSE IF ~languageKnown
                           THEN [request EXCEPT
                                   !.response = errorHandlingResponse(
                                     Err("not-found", "Error",
                                         <<"Language not found: ", "xx">>),
                                     isProduction)]
                         ELSE IF ~bodyValid
                           THEN [request EXCEPT
                                   !.response = errorHandlingResponse(
                                     Err("validation", "Error",
                                         <<"Validation error: force: Expected boolean">>),
                                     isProduction)]
                         ELSE IF ~tokenSet
                           THEN [request EXCEPT
                                   !.response = createErrorResponse(
                                     "INTERNAL_ERROR", <<"Admin token not configured">>, 500,
                                     <<"GITHUB_ADMIN_TOKEN environment variable not set">>,
                                     isProduction)]
                         ELSE [request EXCEPT
                                 !.initialized = TRUE,
                                 !.response =
                                   IF outcome.kind = "thrown"
                                     THEN errorHandlingResponse(
                                            Err("remote", "Error", outcome.message),
                                            isProduction)
                                   ELSE IF ~outcome.success
                                     THEN createErrorResponse(
                                            "INTERNAL_ERROR",
                                            <<"Language initialization completed with errors">>,
                                            adminInitStatus(outcome),
                                            <<[filesProcessed |-> outcome.filesProcessed,
                                               errors |-> outcome.errors,
                                               branchUrl |-> outcome.branchUrl]>>,
                                            isProduction)
                                   ELSE [NoBody EXCEPT !.status = adminInitStatus(outcome)]]
  /\ UNCHANGED <<retryVars, hubVars, forkVars, initVars, libVars, dateNow>>

\* A caller of checkRateLimit with the limit and the window rt names.
RateCall ==
  /\ Len(rlCalls) < MaxCalls
  /\ rt.op = "rate"
  /\ LET limited == checkRateLimit(rateLimitStore, rt.identifier, rt.limit, rt.windowMs,
                                   dateNow)
     IN  /\ rateLimitStore' = limited.store
         /\ rlCalls' = logCall(rt.identifier, rt.limit, rt.windowMs, dateNow, limited.result)
  /\ UNCHANGED <<retryVars, hubVars, forkVars, initVars, libVars, dateNow, rt>>

\* One identifier is rate limited with some limit and window; no call yet.
RateInit ==
  /\ rateLimitStore = <<>>
  /\ rlCalls = <<>>
  /\ dateNow = 0
  /\ rt \in {[op |-> "rate", identifier |-> <<"init:", "alice">>, limit |-> l, windowMs |-> w] :
               l \in {1, 2, InitLimit}, w \in {TickMs, InitWindowMs}}

RouteNext == Contribute \/ AdminInit
ErrorNext == RouteThrows
RateNext == RateCall \/ Tick

(***************************************************************************)
(* Part 9: TranslationService.translateMarkdown (src/lib/translation.ts),  *)
(* on texts that are sequences of characters.  The initialization of Part  *)
(* 6 sees the translation only as a text that differs from its source;     *)
(* here the segmentation is computed as the code computes it.              *)
(***************************************************************************)

\* Bound: the lines of a document.
MaxLines == 5

\* The lines documents are made of: a fence, an indented fence with a
\* language tag, a line of text, a heading and an empty line.  A text is a
\* sequence of characters; Backtick stands for the character U+0060.
Backtick == "BACKTICK"
Fence == <<Backtick, Backtick, Backtick>>
MarkdownLines ==
  {Fence, <<" ">> \o Fence \o <<"j", "s">>, <<"a", "b", "c">>, <<"#", " ", "a", "b", "c">>, <<>>}

\* LANGUAGE_MAP: the codes the service is asked with; "xx-XX" has none.
LanguageMap(languageCode) == IF languageCode = "es-ES" THEN <<"ES">> ELSE <<>>
TargetLanguages == {"es-ES", "xx-XX"}

RECURSIVE DocumentsOfLen(_)
DocumentsOfLen(n) ==
  IF n = 0 THEN {<<>>}
  ELSE {<<l>> \o d : l \in MarkdownLines, d \in DocumentsOfLen(n - 1)}

\* The text whose lines these are: the lines joined by newlines.
RECURSIVE joinLines(_)
joinLines(lines) ==
  IF Len(lines) = 1 THEN lines[1]
  ELSE lines[1] \o <<"\n">> \o joinLines(Tail(lines))

Markdowns == UNION {{joinLines(d) : d \in DocumentsOfLen(n)} : n \in 1..MaxLines}

\* markdown.split('\n')
RECURSIVE split(_)
split(text) ==
  IF \A i \in 1..Len(text) : text[i] # "\n" THEN <<text>>
  ELSE LET at == CHOOSE i \in 1..Len(text) :
                   text[i] = "\n" /\ \A j \in 1..(i - 1) : text[j] # "\n"
       IN  <<SubSeq(text, 1, at - 1)>> \o split(SubSeq(text, at + 1, Len(text)))

\* String.prototype.trim, startsWith and includes
isWhitespace(c) == c \in {" ", "\n"}
trim(text) ==
  IF \A i \in 1..Len(text) : isWhitespace(text[i]) THEN <<>>
  ELSE LET first == CHOOSE i \in 1..Len(text) :
                      ~isWhitespace(text[i]) /\ \A j \in 1..(i - 1) : isWhitespace(text[j])
           last == CHOOSE i \in 1..Len(text) :
                     ~isWhitespace(text[i]) /\ \A j \in (i + 1)..Len(text) : isWhitespace(text[j])
       IN  SubSeq(text, first, last)
startsWith(text, prefix) ==
  Len(text) >= Len(prefix) /\ SubSeq(text, 1, Len(prefix)) = prefix
includes(text, part) ==
  \E i \in 1..(Len(text) - Len(part) + 1) : SubSeq(text, i, i + Len(part) - 1) = part

\* /[a-zA-Z]{3,}/.test
isLetter(c) == c \in {"a", "b", "c", "j", "s", "h", "t", "p"}
hasThreeLetters(text) ==
  \E i \in 1..(Len(text) - 2) : \A j \in i..(i + 2) : isLetter(text[j])

\* A section being accumulated, and one pushed: its content, with the lines of
\* the input it is made of.
NoSection == [content |-> <<>>, first |-> 0]
addLine(current, line, i) ==
  [content |-> current.content \o line \o <<"\n">>,
   first |-> IF current.content = <<>> THEN i ELSE current.first]
pushed(current, last) ==
  [content |-> current.content, first |-> current.first, last |-> last]

\* splitMarkdownSections, the loop from line i on and the push of what remains.
RECURSIVE sectionsFrom(_, _, _, _, _)
sectionsFrom(lines, i, sections, currentSection, inCodeBlock) ==
  IF i > Len(lines)
    THEN (IF trim(currentSection.content) # <<>>
            THEN Append(sections, pushed(currentSection, i - 1))
            ELSE sections)
  ELSE IF startsWith(trim(lines[i]), Fence)
    THEN LET before == IF currentSection.content # <<>>
                         THEN Append(sections, pushed(currentSection, i - 1))
                         ELSE sections
             current == addLine(NoSection, lines[i], i)
         IN  IF inCodeBlock
               THEN sectionsFrom(lines, i + 1, Append(before, pushed(current, i)),
                                 NoSection, FALSE)
               ELSE sectionsFrom(lines, i + 1, before, current, TRUE)
  ELSE IF inCodeBlock
    THEN sectionsFrom(lines, i + 1, sections, addLine(currentSection, lines[i], i), TRUE)
  ELSE LET current == addLine(currentSection, lines[i], i)
       IN  IF /\ trim(lines[i]) = <<>> \/ startsWith(trim(lines[i]), <<"#">>)
              /\ trim(current.content) # <<>>
             THEN sectionsFrom(lines, i + 1, Append(sections, pushed(current, i)),
                               NoSection, FALSE)
             ELSE sectionsFrom(lines, i + 1, sections, current, FALSE)

splitMarkdownSections(markdown) == sectionsFrom(split(markdown), 1, <<>>, NoSection, FALSE)

\* A mutant of shouldSkipTranslation: only empty sections are skipped.
shouldSkipTranslation_onlyEmpty(content) == trim(content) = <<>>

\* shouldSkipTranslation
shouldSkipTranslation(content) ==
  LET trimmed == trim(content)
  IN  \/ startsWith(trimmed, Fence) \/ includes(trimmed, Fence)
      \/ startsWith(trimmed, <<"h", "t", "t", "p", ":", "/", "/">>)
      \/ startsWith(trimmed, <<"h", "t", "t", "p", "s", ":", "/", "/">>)
      \/ trimmed = <<>>
      \/ ~hasThreeLetters(trimmed)

\* The service's translation of a text: every letter comes back as text of the
\* target language, the rest as it was.
serviceText(text, deeplLang) ==
  [i \in 1..Len(text) |-> IF isLetter(text[i]) THEN deeplLang[1] ELSE text[i]]

RECURSIVE joinSections(_)
joinSections(texts) == IF texts = <<>> THEN <<>> ELSE texts[1] \o joinSections(Tail(texts))

\* translateMarkdown: the sections that are not skipped are sent to the
\* service, the others are kept; a language the service has no code for, or a
\* failure of the service, fails the whole call.
translateMarkdownSections(markdown, targetLanguage, serviceUp) ==
  LET sections == splitMarkdownSections(markdown)
      toTranslate == {k \in 1..Len(sections) : ~shouldSkipTranslation(sections[k].content)}
      deeplLang == LanguageMap(targetLanguage)
      sent == IF deeplLang = <<>> THEN {} ELSE toTranslate
  IN  [sections |-> sections,
       sent |-> sent,
       out |-> IF toTranslate = {}
                 THEN returned(joinSections([k \in 1..Len(sections) |-> sections[k].content]))
               ELSE IF deeplLang = <<>>
                 THEN thrown(<<"Failed to translate markdown: ", "Failed to translate text: ",
                               "Unsupported language: ", targetLanguage>>)
               ELSE IF ~serviceUp
                 THEN thrown(<<"Failed to translate markdown: ", "Failed to translate text: ",
                               "Service unavailable">>)
               ELSE returned(joinSections(
                      [k \in 1..Len(sections) |->
                         IF k \in toTranslate THEN serviceText(sections[k].content, deeplLang)
                         ELSE sections[k].content]))]

\* translateMarkdown is about to be called with some document and language.
MarkdownInit ==
  tm \in {[called |-> FALSE, markdown |-> m, targetLanguage |-> l, serviceUp |-> up] :
            m \in Markdowns, l \in TargetLanguages, up \in BOOLEAN}

\* The call of translateMarkdown.
TranslateMarkdown ==
  /\ ~tm.called
  /\ tm' = [called |-> TRUE, markdown |-> tm.markdown, targetLanguage |-> tm.targetLanguage,
            serviceUp |-> tm.serviceUp,
            result |-> translateMarkdownSections(tm.markdown, tm.targetLanguage, tm.serviceUp)]
  /\ UNCHANGED <<retryVars, hubVars, forkVars, initVars, routeVars, sf, um, cs>>

MarkdownNext == TranslateMarkdown

(***************************************************************************)
(* Part 10: updateFileMetadata (src/lib/config.ts) applied in a row to a   *)
(* document, with the clock it stamps with.  A timestamp is the clock's    *)
(* reading in milliseconds: toISOString keeps the order and the equality   *)
(* of readings.                                                            *)
(***************************************************************************)

\* Bound: how many applications are made in a row.
MaxUpdates == 2

\* A mutant of updateFileMetadataAt: every entry is stamped, not only the named one.
updateFileMetadataAt_stampAll(metadata, filename, updates, fileNow, docNow) ==
  LET base == IF filename \in DOMAIN metadata.files
                THEN metadata.files[filename] ELSE DefaultEntry
      entry == [Merge(base, updates) EXCEPT !.lastUpdated = fileNow]
      updatedFiles == [f \in DOMAIN metadata.files \cup {filename} |->
                         IF f = filename THEN entry
                         ELSE [metadata.files[f] EXCEPT !.lastUpdated = fileNow]]
  IN  [metadata EXCEPT !.files = updatedFiles,
                       !.stats = calculateStats(updatedFiles),
                       !.lastUpdated = docNow]

\* updateFileMetadata with its two readings of the clock: new Date() for the
\* entry, and new Date() again for the document.
updateFileMetadataAt(metadata, filename, updates, fileNow, docNow) ==
  LET base == IF filename \in DOMAIN metadata.files
                THEN metadata.files[filename] ELSE DefaultEntry
      entry == [Merge(base, updates) EXCEPT !.lastUpdated = fileNow]
      updatedFiles == [f \in DOMAIN metadata.files \cup {filename} |->
                         IF f = filename THEN entry ELSE metadata.files[f]]
  IN  [metadata EXCEPT !.files = updatedFiles,
                       !.stats = calculateStats(updatedFiles),
                       !.lastUpdated = docNow]

\* The argument of updateFileMetadata after the call: { ...metadata.files } is
\* a copy and only the copy is assigned to.
argumentAfter(metadata, filename, updates) == metadata

\* The partial updates applied: those of markFileInProgress and
\* markFileComplete, a status alone, counts and provenance, and none.
PartialUpdates ==
  {[status |-> "in-progress"],
   inProgressUpdate("bob", 7),
   completeUpdate("bob", 8, 1, PrUrl(1)),
   [wordCount |-> 4, machineTranslated |-> TRUE],
   [k \in {} |-> 0]}

\* The documents updated: as initializeLanguage builds them, for one file or
\* for both, with or without the word counts.
UpdatedDocuments ==
  UNION {{createInitialTranslationMetadata("alice", S, 1, 1),
          wordCountPass(createInitialTranslationMetadata("alice", S, 1, 1), S)} :
           S \in {{"a.md"}, Files}}

\* A document is about to be updated; the clock is past its timestamps.
UpdateInit ==
  /\ um \in {[called |-> FALSE, docs |-> <<d>>, calls |-> <<>>, arguments |-> <<>>] :
               d \in UpdatedDocuments}
  /\ dateNow = 2

\* One application of updateFileMetadata to the document the last one returned.
ApplyUpdate ==
  /\ Len(um.calls) < MaxUpdates
  /\ \E filename \in Files, updates \in PartialUpdates, docNow \in {dateNow, dateNow + 1} :
       LET metadata == um.docs[Len(um.docs)]
       IN  /\ um' = [called |-> TRUE,
                     docs |-> Append(um.docs,
                                     updateFileMetadataAt(metadata, filename, updates,
                                                          dateNow, docNow)),
                     calls |-> Append(um.calls, [filename |-> filename, updates |-> updates,
                                                 fileNow |-> dateNow, docNow |-> docNow]),
                     arguments |-> Append(um.arguments,
                                          argumentAfter(metadata, filename, updates))]
           /\ dateNow' = docNow
  /\ UNCHANGED <<retryVars, hubVars, forkVars, initVars, rateLimitStore, rlCalls, rt, sf, tm,
                 cs>>

UpdateNext == ApplyUpdate \/ Tick

(***************************************************************************)
(* Part 11: calculateStats (src/lib/config.ts) called on a files mapping.  *)
(***************************************************************************)

\* An entry with a status, a word count and a last contributor.
EntryWith(status, wordCount, lastContributor) ==
  [InitialEntry EXCEPT !.status = status, !.wordCount = wordCount,
                       !.lastContributor = lastContributor]

FileStatuses == {"not-started", "in-progress", "complete"}

\* The mappings of up to three files, with every status, two word counts and
\* no, one or the other contributor.
SmallMappings ==
  UNION {[S -> {EntryWith(st, w, c) : st \in FileStatuses, w \in {2, 3},
                                      c \in {NullStr} \cup Users}] :
           S \in SUBSET {"a.md", "b.md", "c.md"}}

\* A mapping of up to MaxFiles files, of which so many are complete, in
\* progress and not started.
MappingOf(completed, inProgress, notStarted) ==
  [i \in 1..(completed + inProgress + notStarted) |->
     IF i <= completed THEN EntryWith("complete", 1, "alice")
     ELSE IF i <= completed + inProgress THEN EntryWith("in-progress", 1, "bob")
     ELSE EntryWith("not-started", 1, NullStr)]
LargeMappings ==
  {MappingOf(t[1], t[2], t[3]) :
     t \in {u \in (0..MaxFiles) \X (0..2) \X (0..MaxFiles) : u[1] + u[2] + u[3] <= MaxFiles}}

\* calculateStats is about to be called on some mapping.
CalcInit ==
  \/ cs \in {[called |-> FALSE, files |-> m] : m \in SmallMappings}
  \/ cs \in {[called |-> FALSE, files |-> m] : m \in LargeMappings}

\* The call of calculateStats.
Calculate ==
  /\ ~cs.called
  /\ cs' = [called |-> TRUE, files |-> cs.files, stats |-> calculateStats(cs.files)]
  /\ UNCHANGED <<retryVars, hubVars, forkVars, initVars, routeVars, sf, tm, um>>

CalcNext == Calculate

(***************************************************************************)
(* The specifications: the requests on the platform (Spec), one call of    *)
(* GitHubClient.request (RetrySpec), the fork management calls (ForkSpec), *)
(* one call of initializeLanguage (InitSpec).                              *)
(***************************************************************************)

RetryIdle ==
  /\ maxRetries = DefaultMaxRetries
  /\ retryDelay = DefaultRetryDelay
  /\ rqPc = "idle"
  /\ rqMaxAttempts = 0
  /\ rqAttempt = 0
  /\ rqCalls = <<>>
  /\ rqDelays = <<>>
  /\ rqWarnings = <<>>
  /\ rqResult = NoResult

\* The fork and its branch exist, as does the upstream branch.
ForkIdle ==
  /\ forkRepo = TRUE
  /\ forkBranch = {1}
  /\ upBranch = {1}
  /\ ef = [c \in Calls |-> IdleCall]
  /\ syncOut = NoSyncOut

\* No translation has been written to the upstream branch.
InitIdle ==
  /\ srcTip = 1
  /\ transFiles = [f \in Files |-> <<>>]
  /\ tmpFiles = [f \in Files |-> <<>>]
  /\ il = IdleInit

\* No library function is being called.
LibIdle == sf = NotCalled /\ tm = NotCalled /\ um = NotCalled /\ cs = NotCalled

\* No route has been requested; the rate limiter has seen no call.
RouteIdle == rateLimitStore = <<>> /\ dateNow = 0 /\ rlCalls = <<>> /\ rt = <<>>

\* No request is in flight and none arrives.
HubIdle == HubInit /\ adminToken /\ metaFile = <<>>

Init == HubInit /\ RetryIdle /\ ForkIdle /\ InitIdle /\ LibIdle /\ RouteIdle
Next == HubNext
Spec == Init /\ [][Next]_vars

\* The contribution requests, never two at a time.
SerialSpec == Init /\ [][SerialNext]_vars

RetrySpecInit == RetryInit /\ HubIdle /\ ForkIdle /\ InitIdle /\ LibIdle /\ RouteIdle
RetrySpec == RetrySpecInit /\ [][RetryNext]_vars

ForkSpecInit == ForkInit /\ RetryIdle /\ HubIdle /\ InitIdle /\ LibIdle /\ RouteIdle
ForkSpec == ForkSpecInit /\ [][ForkNext]_vars

\* The fork management is idle but for the upstream translation branch, which
\* initializeLanguage creates.
InitSpecInit ==
  /\ InitInit
  /\ RetryIdle
  /\ HubInit /\ adminToken
  /\ forkRepo = TRUE /\ forkBranch = NoBranch /\ ef = [c \in Calls |-> IdleCall]
  /\ syncOut = NoSyncOut
  /\ LibIdle /\ RouteIdle
InitSpec == InitSpecInit /\ [][InitNext]_vars

\* Everything but the library function called is idle.
Idle == RetryIdle /\ HubIdle /\ ForkIdle /\ InitIdle /\ RouteIdle

SanitizeSpecInit ==
  SanitizeInit /\ tm = NotCalled /\ um = NotCalled /\ cs = NotCalled /\ Idle
SanitizeSpec == SanitizeSpecInit /\ [][SanitizeNext]_vars

\* translateMarkdown called once on every document of up to MaxLines lines.
MarkdownSpecInit ==
  MarkdownInit /\ sf = NotCalled /\ um = NotCalled /\ cs = NotCalled /\ Idle
MarkdownSpec == MarkdownSpecInit /\ [][MarkdownNext]_vars

\* updateFileMetadata applied up to MaxUpdates times in a row.
UpdateSpecInit ==
  /\ UpdateInit
  /\ rateLimitStore = <<>> /\ rlCalls = <<>> /\ rt = <<>>
  /\ sf = NotCalled /\ tm = NotCalled /\ cs = NotCalled
  /\ RetryIdle /\ HubIdle /\ ForkIdle /\ InitIdle
UpdateSpec == UpdateSpecInit /\ [][UpdateNext]_vars

\* calculateStats called once on a files mapping.
CalcSpecInit ==
  CalcInit /\ sf = NotCalled /\ tm = NotCalled /\ um = NotCalled /\ Idle
CalcSpec == CalcSpecInit /\ [][CalcNext]_vars

\* The routes before their first remote call.
RouteSpecInit == RouteIdle /\ LibIdle /\ RetryIdle /\ HubIdle /\ ForkIdle /\ InitIdle
RouteSpec == RouteSpecInit /\ [][RouteNext]_vars

\* The responses to what handlers throw.
ErrorSpec == RouteSpecInit /\ [][ErrorNext]_vars

\* The calls of checkRateLimit.
RateSpecInit == RateInit /\ LibIdle /\ RetryIdle /\ HubIdle /\ ForkIdle /\ InitIdle
RateSpec == RateSpecInit /\ [][RateNext]_vars


(***************************************************************************)
(* Properties of GitHubClient.request, checked under RetrySpec.            *)
(***************************************************************************)

\* The request is over.
rqOver == rqPc \in {"returned", "thrown"}
\* Call i failed with one of the statuses 500, 502, 503, 504.
FailedServerSide(i) ==
  rqCalls[i].kind # "ok" /\ rqCalls[i].status \in {500, 502, 503, 504}
\* Calls 1..k all failed with one of the statuses 500, 502, 503, 504.
AllServerSide(k) == \A i \in 1..k : FailedServerSide(i)

\* C7: when fn fails k times in a row with a status among 500, 502, 503, 504
\* and k + 1 is within the budget, the request goes on to invocation k + 1; when
\* that invocation succeeds the request returns its success, and fn is never
\* invoked again after a success: k failures then a success are exactly k + 1
\* invocations.
C7_RetryUntilSuccess ==
  /\ \A k \in 0..Len(rqCalls) :
       (k = Len(rqCalls) /\ k < rqMaxAttempts /\ AllServerSide(k))
         => rqPc \in {"calling", "sleeping"}
  /\ \A k \in 1..Len(rqCalls) :
       rqCalls[k].kind = "ok"
         => /\ k = Len(rqCalls)
            /\ rqPc = "returned"
            /\ rqResult.kind = "ok"

\* Three failures (500, 503, 502 or the like), then a success: four invocations.
C7_Witness ==
  /\ rqPc = "returned"
  /\ Len(rqCalls) = 4
  /\ AllServerSide(3)
  /\ rqCalls[1].kind = "http"
  /\ rqCalls[4].kind = "ok"
  /\ Len(rqDelays) = 3

\* C8: an attempt that fails with a 4xx status is the last invocation of fn:
\* the request throws at once a GitHubError with that status and the message
\* the status is assigned (the generic one for a status without an entry).
C8_ClientErrorNotRetried ==
  \A i \in 1..Len(rqCalls) :
    (rqCalls[i].kind = "http" /\ rqCalls[i].status >= 400 /\ rqCalls[i].status <= 499)
      => /\ i = Len(rqCalls)
         /\ rqPc = "thrown"
         /\ rqResult.kind = "GitHubError"
         /\ rqResult.status = rqCalls[i].status
         /\ rqResult.message =
              CASE rqCalls[i].status = 401 -> "Your session expired. Please log in again."
                [] rqCalls[i].status = 403 ->
                     "API rate limit exceeded. Please try again in a few minutes."
                [] rqCalls[i].status = 404 ->
                     "File or repository not found. Please sync your fork."
                [] rqCalls[i].status = 409 ->
                     "This file was updated by someone else. Please refresh."
                [] rqCalls[i].status = 422 ->
                     "Invalid file content. Please check your changes."
                [] OTHER -> "An error occurred. Please try again."

\* A 404 on the first attempt of a request with budget left: one invocation.
C8_Witness ==
  /\ rqPc = "thrown"
  /\ rqMaxAttempts >= 3
  /\ Len(rqCalls) = 1
  /\ rqCalls[1].kind = "http"
  /\ rqCalls[1].status = 404
  /\ rqResult.status = 404

\* C9 as stated: fn is never invoked more than maxAttempts times, and when
\* every attempt failed with a 5xx status the request has invoked fn exactly
\* maxAttempts times and thrown a GitHubError with that status.
C9_Every5xxExhaustsBudget ==
  /\ Len(rqCalls) <= rqMaxAttempts
  /\ (rqOver /\ rqCalls # <<>>
        /\ \A i \in 1..Len(rqCalls) :
             rqCalls[i].kind = "http" /\ rqCalls[i].status >= 500
               /\ rqCalls[i].status <= 599)
       => /\ Len(rqCalls) = rqMaxAttempts
          /\ rqPc = "thrown"
          /\ rqResult.kind = "GitHubError"
          /\ rqResult.status = rqCalls[Len(rqCalls)].status

\* C9, amended: fn is never invoked more than maxAttempts times, and an
\* invocation is pending only while budget remains; when every attempt failed
\* with a status among 500, 502, 503, 504 the request has invoked fn exactly
\* maxAttempts times and thrown a GitHubError with the status of the last
\* attempt; a failure with another 5xx status (501) ends the request at once
\* with a GitHubError of that status.
C9_RetryableExhaustsBudget ==
  /\ Len(rqCalls) <= rqMaxAttempts
  /\ rqPc \in {"calling", "sleeping"} => Len(rqCalls) < rqMaxAttempts
  /\ (rqOver /\ rqCalls # <<>> /\ AllServerSide(Len(rqCalls)))
       => /\ Len(rqCalls) = rqMaxAttempts
          /\ rqPc = "thrown"
          /\ rqResult.kind = "GitHubError"
          /\ rqResult.status = OrDefault(rqCalls[Len(rqCalls)].status, 500)
  /\ \A i \in 1..Len(rqCalls) :
       (rqCalls[i].kind = "http" /\ rqCalls[i].status >= 500
          /\ rqCalls[i].status \notin {500, 502, 503, 504})
         => /\ i = Len(rqCalls)
            /\ rqPc = "thrown"
            /\ rqResult.kind = "GitHubError"
            /\ rqResult.status = rqCalls[i].status

\* Three attempts of three, failing with 500, 502, 503 or 504: thrown after the third.
C9_Witness ==
  /\ rqPc = "thrown"
  /\ rqMaxAttempts = 3
  /\ Len(rqCalls) = 3
  /\ \A i \in 1..3 : rqCalls[i].kind = "http" /\ FailedServerSide(i)
  /\ rqResult.kind = "GitHubError"

\* C10: an attempt that ends in a timeout is a transient failure: while
\* attempts remain it is followed by another attempt, and it ends the request
\* only as the last attempt of the budget.
C10_TimeoutRetried ==
  \A i \in 1..Len(rqCalls) :
    (rqCalls[i].kind = "timeout" /\ i < rqMaxAttempts)
      => (i < Len(rqCalls) \/ rqPc = "sleeping")


(***************************************************************************)
(* Properties of the metadata store and the contribution routes, checked   *)
(* under Spec.                                                             *)
(***************************************************************************)

\* The versions of the metadata document that request r committed.
MetaEntriesBy(r) == {i \in 1..Len(metaLog) : metaLog[i].by = r}
\* The committed writes of request r to its file in its user's fork.
ForkEntriesBy(r) ==
  IF rq[r].user \in Users /\ rq[r].file \in Files
    THEN {i \in 1..Len(forkLog[rq[r].user][rq[r].file]) :
            forkLog[rq[r].user][rq[r].file][i].by = r}
    ELSE {}
\* The entry of file f in a document, if it has one.
EntryOf(doc, f) == IF f \in DOMAIN doc.files THEN <<doc.files[f]>> ELSE <<>>
\* The content of f in u's fork after n committed writes.
ContentAt(u, f, n) == IF n = 0 THEN InitialFork(f) ELSE <<forkLog[u][f][n].content>>
\* The open pull requests of u's translation branch.
UserPRs(u) == {i \in 1..Len(prs) : prs[i].ref = Branch /\ prs[i].user = u}

\* C1: in every version of the metadata document that was ever committed,
\* whoever wrote it and in whatever interleaving, stats is calculateStats of
\* that version's files.
C1_StatsAreRecomputed ==
  /\ \A i \in 1..Len(metaLog) :
       metaLog[i].doc.stats = calculateStats(metaLog[i].doc.files)
  /\ metaFile # <<>> => metaFile[1].stats = calculateStats(metaFile[1].files)

\* A document written by initializeLanguage with counted words, then one
\* written by markFileComplete on top of it.
C1_Witness ==
  /\ Len(metaLog) = 2
  /\ metaLog[1].by # 0
  /\ rq[metaLog[1].by].kind = "init"
  /\ metaLog[1].doc.stats.totalWords > 0
  /\ metaLog[2].by # 0
  /\ rq[metaLog[2].by].kind = "submit"
  /\ metaLog[2].doc.stats.completed = 1
  /\ metaLog[2].doc.stats.translatedWords > 0

\* Two markFileInProgress calls p, q for different files loaded the same
\* version of the document; p committed the next version; then q saved.
RacedOnSnapshot(p, q) ==
  /\ p # q
  /\ rq[p].kind = "draft" /\ rq[q].kind = "draft"
  /\ rq[p].file # rq[q].file
  /\ rq[p].metaGet = 200 /\ rq[q].metaGet = 200
  /\ rq[p].loadedAt = rq[q].loadedAt
  /\ Committed(rq[p].metaPut)
  /\ rq[p].metaWriteAt = rq[p].loadedAt
  /\ rq[q].metaShaGet = 200
  /\ rq[q].metaShaAt = rq[p].loadedAt + 1
  /\ rq[q].metaPut \notin {0} \cup TransientFailures
  /\ rq[q].metaWriteAt = rq[p].loadedAt + 1

\* C2: in that interleaving both calls complete without error, and the version
\* q commits, the final one, has for p's file the entry of the snapshot: the
\* update of p (its file in progress) is gone.
C2_SecondWriterClobbersFirst ==
  \A p, q \in Requests :
    RacedOnSnapshot(p, q)
      => LET n == rq[p].loadedAt
         IN  /\ Committed(rq[q].metaPut)
             /\ rq[p].response.success /\ rq[q].response.success
             /\ metaLog[n + 1].by = p
             /\ metaLog[n + 1].doc.files[rq[p].file].status = "in-progress"
             /\ metaLog[n + 2].by = q
             /\ EntryOf(metaLog[n + 2].doc, rq[p].file) = EntryOf(metaLog[n].doc, rq[p].file)
             /\ EntryOf(metaLog[n + 2].doc, rq[p].file)
                  # EntryOf(metaLog[n + 1].doc, rq[p].file)

\* The race happened, and the document now has q's file in progress and p's
\* file not started.
C2_Witness ==
  \E p, q \in Requests :
    /\ RacedOnSnapshot(p, q)
    /\ rq[p].pc = "done" /\ rq[q].pc = "done"
    /\ Len(metaLog) = rq[p].loadedAt + 2
    /\ metaFile[1] = metaLog[Len(metaLog)].doc
    /\ metaFile[1].files[rq[q].file].status = "in-progress"
    /\ metaFile[1].files[rq[p].file].status = "not-started"

ForkRace(p, q) ==
  /\ p # q
  /\ rq[p].user = rq[q].user /\ rq[p].file = rq[q].file
  /\ rq[p].forkGet = 200 /\ rq[q].forkGet = 200
  /\ rq[p].forkShaAt = rq[q].forkShaAt
  /\ rq[p].forkPut \notin {0} \cup TransientFailures
  /\ rq[p].forkWriteAt = rq[p].forkShaAt
  /\ rq[q].forkPut \notin {0} \cup TransientFailures
  /\ rq[q].forkWriteAt = rq[p].forkShaAt + 1

\* The write of p changed the content of the file.
ForkChangedBy(p) ==
  <<rq[p].content>> # ContentAt(rq[p].user, rq[p].file, rq[p].forkShaAt)

\* C4 as stated: of two such calls exactly one commits; the other is answered
\* 409, which its caller gets as an error, and writes nothing.
C4_ExactlyOneForkWriteCommits ==
  \A p, q \in Requests :
    ForkRace(p, q)
      => /\ Committed(rq[p].forkPut)
         /\ rq[q].forkPut = 409
         /\ ForkEntriesBy(q) = {}
         /\ ~rq[q].response.success

\* C4, amended: the first write commits; when it changed the content of the
\* file the second is answered 409, which its caller gets as an error, and
\* writes nothing; when it left the content as it was (the blob SHA is a hash
\* of the content) the second write commits too.
C4_SecondForkWriteRejectedIfChanged ==
  \A p, q \in Requests :
    ForkRace(p, q)
      => /\ Committed(rq[p].forkPut)
         /\ ForkChangedBy(p)
              => /\ rq[q].forkPut = 409
                 /\ ForkEntriesBy(q) = {}
                 /\ rq[q].pc = "done"
                 /\ ~rq[q].response.success
                 /\ rq[q].response.message =
                      <<"This file was updated by someone else. Please refresh.">>
         /\ ~ForkChangedBy(p) => Committed(rq[q].forkPut)

\* The race with a first write that changed the content: the second got 409.
C4_Witness ==
  \E p, q \in Requests :
    /\ ForkRace(p, q)
    /\ ForkChangedBy(p)
    /\ rq[q].forkPut = 409
    /\ forkFile[rq[p].user][rq[p].file] = <<rq[p].content>>

\* C5: a save-draft request that has answered has answered success exactly when
\* its content write committed, and then with that commit; the content it
\* committed is on record in the fork, whatever became of the metadata update
\* (not attempted, failed to load, rejected, committed).
C5_DraftSuccessIffContentCommitted ==
  \A r \in Requests :
    (rq[r].kind = "draft" /\ rq[r].pc = "done")
      => /\ rq[r].response.success <=> Committed(rq[r].forkPut)
         /\ Committed(rq[r].forkPut)
              => /\ rq[r].response = draftResponse(rq[r].commitSha)
                 /\ \E i \in ForkEntriesBy(r) :
                      forkLog[rq[r].user][rq[r].file][i].content = rq[r].content
         /\ ~Committed(rq[r].forkPut) => ForkEntriesBy(r) = {}

\* A draft whose content was committed and whose metadata write was rejected:
\* the answer is success.
C5_Witness ==
  \E r \in Requests :
    /\ rq[r].kind = "draft"
    /\ rq[r].pc = "done"
    /\ Committed(rq[r].forkPut)
    /\ rq[r].metaPut # 0
    /\ ~Committed(rq[r].metaPut)
    /\ rq[r].response.success

C11_StatusNamesWhatForkLacks ==
  (syncOut.op = "check" /\ ~syncOut.omitted)
    => LET lacks == syncOut.head \ syncOut.base # {}
           own == syncOut.base \ syncOut.head # {}
       IN  /\ syncOut.out.status = "behind" <=> (lacks /\ ~own)
           /\ syncOut.out.status = "ahead" <=> (own /\ ~lacks)
           /\ syncOut.out.status = "diverged" <=> (own /\ lacks)
           /\ syncOut.out.status = "identical" <=> (~own /\ ~lacks)

\* C12: the behindBy and aheadBy returned are the counts of the response, 0
\* for an omitted one, never negative; and the status is decided by the
\* returned pair alone: (0,0) identical, (>0,0) behind, (0,>0) ahead,
\* (>0,>0) diverged.
C12_StatusIsFunctionOfCounts ==
  syncOut.op = "check"
    => LET b == syncOut.out.behindBy
           a == syncOut.out.aheadBy
       IN  /\ b >= 0 /\ a >= 0
           /\ b = IF syncOut.comparison.behind_by = Undefined THEN 0
                  ELSE syncOut.comparison.behind_by
           /\ a = IF syncOut.comparison.ahead_by = Undefined THEN 0
                  ELSE syncOut.comparison.ahead_by
           /\ (b = 0 /\ a = 0) => syncOut.out.status = "identical"
           /\ (b > 0 /\ a = 0) => syncOut.out.status = "behind"
           /\ (b = 0 /\ a > 0) => syncOut.out.status = "ahead"
           /\ (b > 0 /\ a > 0) => syncOut.out.status = "diverged"

\* A comparison whose ahead_by the platform omitted (the upstream branch has a
\* commit the fork lacks) was classified from behind_by = 2 and 0.
C12_Witness ==
  /\ syncOut.op = "check"
  /\ syncOut.comparison.ahead_by = Undefined
  /\ syncOut.comparison.behind_by = 2
  /\ syncOut.out.status = "behind"
  /\ syncOut.out.aheadBy = 0
  /\ Cardinality(syncOut.head \ syncOut.base) = 1

\* C13: syncForkWithUpstream returns {success: true, conflicts: false} when
\* merge-upstream succeeds, returns {success: false, conflicts: true,
\* conflictUrl} when it fails with 409, throws on every other failure; in a
\* returned result exactly one of success and conflicts is true, and
\* conflictUrl is there exactly when conflicts is.
C13_SyncResultShape ==
  syncOut.op = "sync"
    => LET out == syncOut.out
       IN  /\ syncOut.status = 200
                => out.kind = "result" /\ out.success /\ ~out.conflicts
           /\ syncOut.status = 409
                => /\ out.kind = "result" /\ ~out.success /\ out.conflicts
                   /\ out.conflictUrl = <<"compare", Branch>>
           /\ syncOut.status \notin {200, 409}
                => out.kind = "thrown" /\ out.message[1] = "Failed to sync fork: "
           /\ out.kind = "result"
                => /\ out.success # out.conflicts
                   /\ (out.conflictUrl # NullUrl) <=> out.conflicts

\* The merge of a diverged fork was answered 409: a result, not an error.
C13_Witness ==
  /\ syncOut.op = "sync"
  /\ syncOut.status = 409
  /\ syncOut.out.kind = "result"
  /\ syncOut.out.conflicts
  /\ forkBranch \ upBranch # {}

\* C14: a call of ensureFork that has returned reported hasBranch = true
\* exactly when the branch was in the fork at its return, also when it
\* overlapped another call; with no upstream branch it reported false and
\* created nothing; a branch it created is at the upstream tip it read.
C14_HasBranchIffBranchExists ==
  \A c \in Calls :
    ef[c].pc = "returned"
      => /\ ef[c].hasBranch <=> ef[c].existed
         /\ ef[c].upstreamMissing => (~ef[c].hasBranch /\ ef[c].created = NoBranch)
         /\ ef[c].created # NoBranch => ef[c].created = ef[c].upstreamSha


(***************************************************************************)
(* Properties of initializeLanguage, checked under InitSpec.               *)
(***************************************************************************)

\* The statuses onProgress was called with for file f, in order.
EventsOf(f) ==
  LET about == SelectSeq(il.events, LAMBDA e : e.filename = f)
  IN  [i \in 1..Len(about) |-> about[i].status]
\* The loop is over file i: its iteration ended, or the loop did.
Finished(i) == i < il.idx
\* The files enumerated, as a set.
Enumerated == {il.files[i] : i \in 1..Len(il.files)}
\* The loop is over every file.
LoopOver == il.pc \in {"build", "save", "returned"} \/ il.thrownAt = "save"

\* C15: for every enumerated file whose iteration is over, onProgress was
\* called for it with pending, then translating, then exactly one of complete
\* and error, and with nothing after.
C15_PendingTranslatingThenOutcome ==
  \A i \in 1..Len(il.files) :
    Finished(i)
      => \E outcome \in {"complete", "error"} :
           EventsOf(il.files[i]) = <<"pending", "translating", outcome>>

\* C16: a createBranch answered 422 lets the call go on to the enumeration
\* with the locals a successful creation leaves; any other failure of
\* createBranch aborts the call with 'Failed to initialize language: ...'
\* before any source is read, any progress reported, any file or the metadata
\* written.
C16_ExistingBranchIsNotAFailure ==
  /\ il.branchStatus = 422 => il.thrownAt # "createBranch"
  /\ (il.pc = "enumerate" /\ il.branchStatus \in {201, 422})
       => il = Merge(IdleInit, [pc |-> "enumerate", override |-> il.override,
                                coordinator |-> il.coordinator,
                                sourceCommitSha |-> il.sourceCommitSha,
                                branchStatus |-> il.branchStatus])
  /\ il.branchStatus \notin {0, 201, 422}
       => /\ il.pc = "thrown" /\ il.thrownAt = "createBranch"
          /\ il.result.kind = "thrown"
          /\ il.result.message[1] = "Failed to initialize language: "
          /\ il.reads = <<>> /\ il.events = <<>> /\ il.writes = <<>>
          /\ il.files = <<>> /\ il.metadata = <<>> /\ il.metaPut = 0

\* The branch existed (422) and the call went through: files translated and
\* written, the metadata saved.
C16_Witness ==
  /\ il.branchStatus = 422
  /\ il.pc = "returned"
  /\ il.filesProcessed >= 1
  /\ Committed(il.metaPut)
  /\ metaFile = il.metadata

\* C17: with an override commit C the translation branch is created at C, the
\* metadata's sourceCommitSha is C, the files enumerated are those of C and
\* every source read is served at C, whatever was pushed to the source branch
\* after C.
C17_ReproducibleAtOverride ==
  il.override # 0
    => /\ il.branchStatus = 201 => upBranch = 1..il.override
       /\ il.pc \notin {"idle", "thrown"} => il.sourceCommitSha = il.override
       /\ il.metadata # <<>> => il.metadata[1].sourceCommitSha = il.override
       /\ \A i \in 1..Len(il.reads) : il.reads[i].commit = il.override
       /\ il.reads # <<>> => il.files = getSourceFiles(il.override)
       /\ \A i \in 1..Len(il.writes) :
            il.writes[i].folder = "work"
              => transFiles[il.writes[i].file]
                   = <<translateMarkdown(getFileContent(il.override, il.writes[i].file),
                                         "es")>>

\* C18: every file whose iteration is over either counted in filesProcessed or
\* left exactly one entry in errors, whatever step of it failed; the loop goes
\* on after a failure, so that once it is over filesProcessed + the number of
\* errors is the number of files enumerated; no failure inside the loop aborts
\* the call, which goes on to the metadata write.
C18_FileFailureIsRecordedNotFatal ==
  LET errorsOf(f) == {k \in 1..Len(il.errors) : il.errors[k][2] = f}
      done == {i \in 1..Len(il.files) : Finished(i)}
  IN  /\ il.thrownAt \notin {"fetch", "translate", "write", "backup"}
      /\ \A i \in done :
           /\ Cardinality(errorsOf(il.files[i])) <= 1
           /\ Cardinality(errorsOf(il.files[i])) = 1
                <=> EventsOf(il.files[i])[Len(EventsOf(il.files[i]))] = "error"
      /\ il.filesProcessed + Len(il.errors) = Cardinality(done)
      /\ LoopOver => il.filesProcessed + Len(il.errors) = Len(il.files)
      /\ il.pc = "returned" => Committed(il.metaPut) /\ metaFile = il.metadata

\* The first of two files failed after its working translation was written,
\* the second was processed, and the metadata was written.
C18_Witness ==
  /\ il.pc = "returned"
  /\ Len(il.files) = 2
  /\ il.filesProcessed = 1
  /\ Len(il.errors) = 1
  /\ il.errors[1][2] = il.files[1]
  /\ \E i \in 1..Len(il.writes) :
       il.writes[i] = [file |-> il.files[1], folder |-> "work"]
  /\ Committed(il.metaPut)

\* C19: the result says success exactly when errors is empty; it carries the
\* errors, the count and the branch URL; when it is returned, with failed files
\* or none, the metadata document is the one saved, the branch is there and
\* every file the call wrote is as written.
C19_PartialSuccessIsKept ==
  /\ il.pc = "returned"
       => /\ il.result.kind = "result"
          /\ il.result.success <=> il.errors = <<>>
          /\ il.result.errors = il.errors
          /\ il.result.filesProcessed = il.filesProcessed
          /\ il.result.branchUrl = <<"tree", Branch>>
          /\ adminInitStatus(il.result) = (IF il.errors = <<>> THEN 200 ELSE 207)
          /\ Committed(il.metaPut) /\ metaFile = il.metadata
          /\ DOMAIN il.metadata[1].files = Enumerated
  /\ il.branchStatus \in {201, 422} => upBranch # NoBranch
  /\ \A i \in 1..Len(il.writes) :
       LET f == il.writes[i].file
       IN  IF il.writes[i].folder = "work" THEN transFiles[f] # <<>> ELSE tmpFiles[f] # <<>>

\* One file failed and one was processed: success is false, the metadata is
\* saved, the processed file is on the branch.
C19_Witness ==
  /\ il.pc = "returned"
  /\ ~il.result.success
  /\ Len(il.result.errors) = 1
  /\ il.result.filesProcessed = 1
  /\ metaFile = il.metadata
  /\ upBranch # NoBranch
  /\ \E f \in Enumerated : transFiles[f] # <<>> /\ tmpFiles[f] # <<>>


(***************************************************************************)
(* Properties of the metadata load of a contribution, checked under Spec.  *)
(***************************************************************************)

\* C20: a load answered 404 gives null, not the error of the 404: the mark
\* function then fails with 'Translation metadata not found' and neither reads
\* the SHA nor writes the document; a load that fails otherwise throws that
\* failure on, again before any write; a load answered 200 gives the document
\* and no failure.
C20_MissingMetadataIsNullThenNotFound ==
  \A r \in Requests :
    /\ rq[r].metaGet = 404
         => /\ rq[r].metaError = <<"Translation metadata not found">>
            /\ rq[r].pc = "done"
            /\ rq[r].updated = <<>>
            /\ rq[r].metaShaGet = 0 /\ rq[r].metaPut = 0
            /\ MetaEntriesBy(r) = {}
    /\ rq[r].metaGet \notin {0, 200, 404}
         => /\ rq[r].metaError = <<handleError(rq[r].metaGet).message>>
            /\ rq[r].metaError # <<"Translation metadata not found">>
            /\ rq[r].pc = "done"
            /\ rq[r].metaShaGet = 0 /\ rq[r].metaPut = 0
            /\ MetaEntriesBy(r) = {}
    /\ rq[r].metaGet = 200 => rq[r].metaError = <<>> /\ rq[r].updated # <<>>

\* A draft was saved to the fork of a language that has no metadata document:
\* the mark failed with 'Translation metadata not found' and no document exists.
C20_Witness ==
  \E r \in Requests :
    /\ rq[r].pc = "done"
    /\ rq[r].kind = "draft"
    /\ Committed(rq[r].forkPut)
    /\ rq[r].metaGet = 404
    /\ rq[r].metaError = <<"Translation metadata not found">>
    /\ metaFile = <<>>


(***************************************************************************)
(* Properties of the input checks, checked under SanitizeSpec.             *)
(***************************************************************************)

\* C21: sanitizeFilename throws or returns its input as it is, never a
\* shortened or altered name; it throws for every input that is empty or blank
\* or contains '/', '\' or '..'.
C21_SanitizeRejectsOrReturnsInput ==
  sf.called
    => /\ sf.out.kind = "thrown" \/ (sf.out.kind = "returned" /\ sf.out.value = sf.input)
       /\ (\/ sf.input = <<>>
           \/ \A i \in 1..Len(sf.input) : sf.input[i] = " "
           \/ \E i \in 1..Len(sf.input) : sf.input[i] \in {"/", "\\"}
           \/ \E i \in 1..(Len(sf.input) - 1) : sf.input[i] = "." /\ sf.input[i + 1] = ".")
            => sf.out.kind = "thrown"

\* The name "../a" was rejected as a path traversal, not reduced to "a".
C21_Witness ==
  /\ sf.called
  /\ sf.input = <<".", ".", "/", "a">>
  /\ sf.out.kind = "thrown"
  /\ sf.out.message = "Invalid filename: path traversal detected"


(***************************************************************************)
(* Properties of the routes, checked under RouteSpec and ErrorSpec.        *)
(***************************************************************************)

\* C22: a request rejected because authentication is missing (no session, or
\* no access token) is answered 401 UNAUTHORIZED, and a request rejected by the
\* admin allow-list is answered 403 FORBIDDEN.
C22_MissingAuthIs401AdminIs403 ==
  /\ (rt # <<>> /\ rt.op = "contribution" /\ (~rt.session \/ ~rt.token))
       => rt.response.status = 401 /\ rt.response.code = "UNAUTHORIZED"
  /\ (rt # <<>> /\ rt.op = "admin" /\ ~rt.session)
       => rt.response.status = 401 /\ rt.response.code = "UNAUTHORIZED"
  /\ (rt # <<>> /\ rt.op = "admin" /\ rt.session /\ rt.user \notin Admins)
       => rt.response.status = 403 /\ rt.response.code = "FORBIDDEN"

C24_RejectedFilenameIs400 ==
  (/\ rt # <<>>
   /\ rt.op = "contribution"
   /\ rt.error # <<>>
   /\ rt.error[1].origin = "validation")
    => /\ rt.response.status = 400
       /\ rt.response.code = "VALIDATION_ERROR"
       /\ ~rt.remoteCalls

\* C25: in the initialize-language route initializeLanguage is invoked only
\* for a signed-in user who passed the admin allow-list and whose rate-limit
\* check succeeded; a request of a non-admin invokes nothing, is answered 403
\* and leaves the rate-limit store as it was.
C25_InitOnlyForAdminWithinLimit ==
  (rt # <<>> /\ rt.op = "admin")
    => /\ rt.initialized
            => /\ rt.session
               /\ rt.user \in Admins
               /\ rlCalls # <<>>
               /\ rlCalls[Len(rlCalls)].identifier = <<"init:", rt.user>>
               /\ rlCalls[Len(rlCalls)].result.success
       /\ rt.user \notin Admins
            => /\ ~rt.initialized
               /\ rateLimitStore = rt.storeBefore
               /\ \A i \in 1..Len(rlCalls) : rlCalls[i].identifier # <<"init:", rt.user>>
               /\ rt.response.status \in {401, 403}

\* An admin's second request within the limit reached initializeLanguage, and
\* consumed quota.
C25_Witness ==
  /\ rt # <<>>
  /\ rt.op = "admin"
  /\ rt.user = "alice"
  /\ rt.initialized
  /\ Len(rlCalls) = 2
  /\ rateLimitStore # rt.storeBefore


(***************************************************************************)
(* Properties of the rate limiter, checked under RateSpec.                 *)
(***************************************************************************)

\* The call that opened the window the i-th call falls in: the latest call up
\* to i that is the first one or came after the reset time reported before it.
windowStart(i) ==
  CHOOSE j \in 1..i :
    /\ j = 1 \/ rlCalls[j].t > rlCalls[j - 1].result.reset
    /\ \A k \in (j + 1)..i : rlCalls[k].t <= rlCalls[k - 1].result.reset

\* C26: of the calls of checkRateLimit with one identifier and limit L that
\* fall in one window, exactly the first L succeed, with remaining = L minus the
\* calls so far; the later ones fail with remaining 0 and the reset time
\* unchanged; the first call after the reset time opens a new window and
\* succeeds.  The initialize-language route uses L = 5 and a window of an hour.
C26_FirstLCallsOfAWindowSucceed ==
  /\ InitLimit = 5 /\ InitWindowMs = 3600000
  /\ \A i \in 1..Len(rlCalls) :
       LET call == rlCalls[i]
           n == i - windowStart(i) + 1
       IN  /\ n = 1 => /\ call.result.success
                        /\ call.result.reset = call.t + call.windowMs
           /\ n > 1 => call.result.reset = rlCalls[i - 1].result.reset
           /\ call.result.success <=> n <= call.limit
           /\ call.result.remaining = IF n <= call.limit THEN call.limit - n ELSE 0

\* With the limit of the initialize-language route: five calls of one window
\* succeeded, the sixth was refused, and the seventh, after the reset time,
\* opened a new window.
C26_Witness ==
  /\ Len(rlCalls) = 7
  /\ rlCalls[1].limit = InitLimit
  /\ \A i \in 1..5 : rlCalls[i].result.success /\ rlCalls[i].result.remaining = 5 - i
  /\ ~rlCalls[6].result.success
  /\ rlCalls[6].result.reset = rlCalls[1].result.reset
  /\ rlCalls[7].t > rlCalls[6].result.reset
  /\ rlCalls[7].result.success
  /\ rlCalls[7].result.remaining = 4


(***************************************************************************)
(* Properties of translateMarkdown, checked under MarkdownSpec.            *)
(***************************************************************************)

\* The fenced code blocks of a document: the pairs of an opening fence line and
\* its closing fence line, the fence lines being taken in turn.
isFenceLine(lines, i) == startsWith(trim(lines[i]), Fence)
FencedBlocks(lines) ==
  {b \in (1..Len(lines)) \X (1..Len(lines)) :
     /\ b[1] < b[2]
     /\ isFenceLine(lines, b[1]) /\ isFenceLine(lines, b[2])
     /\ \A k \in (b[1] + 1)..(b[2] - 1) : ~isFenceLine(lines, k)
     /\ Cardinality({k \in 1..(b[1] - 1) : isFenceLine(lines, k)}) % 2 = 0}

\* C27: for every document with a fenced code block and every target
\* language, the output of translateMarkdown contains the lines of the block
\* byte for byte, and no section sent to the translation service holds a line
\* of the block.
C27_FencedBlocksAreKeptAndNeverSent ==
  tm.called
    => \A b \in FencedBlocks(split(tm.markdown)) :
         /\ tm.result.out.kind = "returned"
              => includes(tm.result.out.value,
                          joinLines(SubSeq(split(tm.markdown), b[1], b[2])))
         /\ \A k \in tm.result.sent :
              tm.result.sections[k].last < b[1] \/ tm.result.sections[k].first > b[2]

\* A document of text, a tagged block holding a line of text, and text again
\* was translated into Spanish: the text around the block was sent and came
\* back changed.
C27_Witness ==
  /\ tm.called
  /\ split(tm.markdown) = <<<<"a", "b", "c">>, <<" ">> \o Fence \o <<"j", "s">>,
                            <<"a", "b", "c">>, Fence, <<"a", "b", "c">>>>
  /\ tm.targetLanguage = "es-ES"
  /\ tm.result.out.kind = "returned"
  /\ Cardinality(tm.result.sent) = 2
  /\ tm.result.out.value =
       <<"ES", "ES", "ES", "\n"," ">> \o Fence \o <<"j", "s", "\n", "a", "b", "c", "\n">>
         \o Fence \o <<"\n", "ES", "ES", "ES", "\n">>


(***************************************************************************)
(* Properties of updateFileMetadata, checked under UpdateSpec.             *)
(***************************************************************************)

\* A document without its timestamps.
withoutTimestamps(doc) ==
  [doc EXCEPT !.lastUpdated = NullNum,
              !.files = [f \in DOMAIN doc.files |-> [doc.files[f] EXCEPT !.lastUpdated = NullNum]]]

\* The applications that repeat the one before them: same filename, same update.
Repeated ==
  {k \in 2..Len(um.calls) :
     /\ um.calls[k].filename = um.calls[k - 1].filename
     /\ um.calls[k].updates = um.calls[k - 1].updates}

\* C28, as stated: the second of two applications with the same filename and
\* the same partial update changes nothing but timestamps, and the timestamps
\* it writes (the file's and the document's lastUpdated) are strictly later
\* than those of the first.
C28_TimestampsStrictlyAdvance ==
  \A k \in Repeated :
    LET first == um.docs[k]
        second == um.docs[k + 1]
        f == um.calls[k].filename
    IN  /\ withoutTimestamps(second) = withoutTimestamps(first)
        /\ second.files[f].lastUpdated > first.files[f].lastUpdated
        /\ second.lastUpdated > first.lastUpdated

\* C28, amended: the second application changes nothing but timestamps, and
\* the timestamps it writes are the clock's readings at the second
\* application, never earlier than those of the first and equal to them when
\* the clock has not moved in between.
C28_TimestampsDoNotGoBack ==
  \A k \in Repeated :
    LET first == um.docs[k]
        second == um.docs[k + 1]
        f == um.calls[k].filename
    IN  /\ withoutTimestamps(second) = withoutTimestamps(first)
        /\ second.files[f].lastUpdated = um.calls[k].fileNow
        /\ second.lastUpdated = um.calls[k].docNow
        /\ second.files[f].lastUpdated >= first.files[f].lastUpdated
        /\ second.lastUpdated >= first.lastUpdated

\* The same update of word count and provenance was applied twice within one
\* reading of the clock: the two results are equal, timestamps included.
C28_Witness ==
  /\ Len(um.calls) = 2
  /\ 2 \in Repeated
  /\ um.calls[2].updates = [wordCount |-> 4, machineTranslated |-> TRUE]
  /\ um.docs[2].files[um.calls[2].filename].wordCount = 4
  /\ um.docs[3] = um.docs[2]

\* C29: an application changes only the named file's entry, the stats and the
\* document's lastUpdated: the other entries and the other fields of the
\* document are as before, the fields of the named entry that the update does
\* not name keep their values, and the argument is not mutated.
C29_OnlyTheNamedEntryChanges ==
  \A k \in 1..Len(um.calls) :
    LET before == um.docs[k]
        after == um.docs[k + 1]
        call == um.calls[k]
    IN  /\ DOMAIN after = DOMAIN before
        /\ \A field \in DOMAIN before \ {"files", "stats", "lastUpdated"} :
             after[field] = before[field]
        /\ DOMAIN after.files = DOMAIN before.files \cup {call.filename}
        /\ \A f \in DOMAIN before.files \ {call.filename} : after.files[f] = before.files[f]
        /\ call.filename \in DOMAIN before.files
             => \A field \in DOMAIN before.files[call.filename] :
                  field \notin DOMAIN call.updates \cup {"lastUpdated"}
                    => after.files[call.filename][field] = before.files[call.filename][field]
        /\ um.arguments[k] = before

\* After bob was recorded on a.md, an update of the status alone kept him as
\* the last contributor and left b.md's entry as it was.
C29_Witness ==
  /\ Len(um.calls) = 2
  /\ um.calls[1].filename = "a.md" /\ um.calls[1].updates = inProgressUpdate("bob", 7)
  /\ um.calls[2].filename = "a.md" /\ um.calls[2].updates = [status |-> "in-progress"]
  /\ um.docs[3].files["a.md"].lastContributor = "bob"
  /\ "b.md" \in DOMAIN um.docs[1].files
  /\ um.docs[3].files["b.md"] = um.docs[1].files["b.md"]
  /\ um.docs[3].lastUpdated > um.docs[2].lastUpdated

\* C30: an application to a filename without entry adds exactly one entry,
\* with the defaults (status not-started, no contributor, commit or pull
\* request, wordCount 0, both provenance flags false) overridden by the fields
\* of the update; stats.totalFiles grows by exactly 1 and no entry that was
\* there changes.
C30_AbsentFileIsSynthesized ==
  \A k \in 1..Len(um.calls) :
    LET before == um.docs[k]
        after == um.docs[k + 1]
        call == um.calls[k]
        defaults == [status |-> "not-started", lastContributor |-> NullStr,
                     lastCommitSha |-> NullNum, prNumber |-> NullNum, prUrl |-> NullUrl,
                     wordCount |-> 0, machineTranslated |-> FALSE, humanReviewed |-> FALSE]
    IN  call.filename \notin DOMAIN before.files
          => /\ DOMAIN after.files = DOMAIN before.files \cup {call.filename}
             /\ DOMAIN after.files[call.filename] = DOMAIN defaults \cup {"lastUpdated"}
             /\ \A field \in DOMAIN defaults :
                  after.files[call.filename][field] =
                    IF field \in DOMAIN call.updates THEN call.updates[field]
                    ELSE defaults[field]
             /\ after.stats.totalFiles = before.stats.totalFiles + 1
             /\ \A f \in DOMAIN before.files : after.files[f] = before.files[f]

\* b.md, which had no entry, was marked in progress: its entry has bob, the
\* commit and the defaults for the rest, and the document counts two files.
C30_Witness ==
  /\ Len(um.calls) = 1
  /\ DOMAIN um.docs[1].files = {"a.md"}
  /\ um.calls[1].filename = "b.md"
  /\ um.calls[1].updates = inProgressUpdate("bob", 7)
  /\ um.docs[2].files["b.md"].status = "in-progress"
  /\ um.docs[2].files["b.md"].machineTranslated = FALSE
  /\ um.docs[2].files["b.md"].wordCount = 0
  /\ um.docs[2].stats.totalFiles = 2


(***************************************************************************)
(* Properties of calculateStats, checked under CalcSpec.                   *)
(***************************************************************************)

\* The entries of a mapping with a status.
WithStatus(files, status) == {f \in DOMAIN files : files[f].status = status}

\* The sum of the word counts of the entries named in S, count by count.
WordsOf(files, S) ==
  LET n(w) == Cardinality({f \in S : files[f].wordCount = w})
  IN  1 * n(1) + 2 * n(2) + 3 * n(3)

\* C31: calculateStats returns the reference aggregation: totalFiles is the
\* number of entries; completed, inProgress and notStarted are the numbers of
\* entries of each status and sum to totalFiles; totalWords is the sum of the
\* word counts, translatedWords that of the complete entries; contributors
\* is the collection, without duplicates, of the non-null last contributors.
C31_StatsAreTheReferenceAggregation ==
  cs.called
    => /\ cs.stats.totalFiles = Cardinality(DOMAIN cs.files)
       /\ cs.stats.completed = Cardinality(WithStatus(cs.files, "complete"))
       /\ cs.stats.inProgress = Cardinality(WithStatus(cs.files, "in-progress"))
       /\ cs.stats.notStarted = Cardinality(WithStatus(cs.files, "not-started"))
       /\ cs.stats.completed + cs.stats.inProgress + cs.stats.notStarted
            = cs.stats.totalFiles
       /\ cs.stats.totalWords = WordsOf(cs.files, DOMAIN cs.files)
       /\ cs.stats.translatedWords = WordsOf(cs.files, WithStatus(cs.files, "complete"))
       /\ \A u \in Users :
            u \in cs.stats.contributors
              <=> \E f \in DOMAIN cs.files : cs.files[f].lastContributor = u
       /\ cs.stats.contributors \subseteq Users

\* Two complete files of alice and one in progress of bob: five of eight
\* words are translated and alice is named once.
C31_Witness ==
  /\ cs.called
  /\ cs.files = [f \in {"a.md", "b.md", "c.md"} |->
                   IF f = "a.md" THEN EntryWith("complete", 2, "alice")
                   ELSE IF f = "b.md" THEN EntryWith("complete", 3, "alice")
                   ELSE EntryWith("in-progress", 3, "bob")]
  /\ cs.stats.totalWords = 8
  /\ cs.stats.translatedWords = 5
  /\ cs.stats.contributors = {"alice", "bob"}
  /\ cs.stats.percentComplete = 67

\* C32: percentComplete is 100 * completed / totalFiles rounded half-up to an
\* integer when totalFiles > 0 (1 of 3 gives 33, 1 of 2 gives 50), and 0 when
\* totalFiles = 0; it is always an integer between 0 and 100.
C32_PercentIsRoundedHalfUp ==
  cs.called
    => /\ cs.stats.percentComplete =
            IF cs.stats.totalFiles > 0
              THEN RoundHalfUp(100 * cs.stats.completed, cs.stats.totalFiles)
            ELSE 0
       /\ cs.stats.percentComplete \in 0..100


(***************************************************************************)
(* Properties of the requests that span several remote calls, checked      *)
(* under Spec.                                                             *)
(***************************************************************************)

\* The submit requests that ended at the pull-request step after their content
\* write committed: no pull request was found or created for them.
FailedAtPullRequest ==
  {r \in Requests : /\ rq[r].kind = "submit"
                    /\ rq[r].pc = "done"
                    /\ Committed(rq[r].forkPut)
                    /\ rq[r].prNumber = NullNum}

\* C33: a submit request that fails at the pull-request step after its content
\* write committed is answered with an error; the committed content stays in
\* the fork, and the request leaves the metadata document alone.
C33_FailedPullRequestLeavesContentAndMetadata ==
  \A r \in FailedAtPullRequest :
    LET log == forkLog[rq[r].user][rq[r].file]
        mine == {i \in 1..Len(log) : log[i].by = r}
    IN  /\ rq[r].response.sent /\ ~rq[r].response.success
        /\ rq[r].response.http >= 400
        /\ Cardinality(mine) = 1
        /\ \A i \in mine :
             /\ log[i].content = rq[r].content
             /\ i = Len(log) => forkFile[rq[r].user][rq[r].file] = <<rq[r].content>>
        /\ rq[r].metaGet = 0 /\ rq[r].metaShaGet = 0 /\ rq[r].metaPut = 0
        /\ \A i \in 1..Len(metaLog) : metaLog[i].by # r

\* A submit of alice wrote b.md to her fork, found no pull request and could
\* not create one: the content is in the fork, the document says nothing of it.
C33_Witness ==
  \E r \in FailedAtPullRequest :
    /\ rq[r].user = "alice"
    /\ rq[r].file = "b.md"
    /\ rq[r].response.http = 500
    /\ forkFile["alice"]["b.md"] = <<rq[r].content>>
    /\ metaFile # <<>>
    /\ metaFile[1].files["b.md"].status # "complete"

\* The metadata documents persisted so far.
PersistedDocs == {metaLog[i].doc : i \in 1..Len(metaLog)} \cup {metaFile[i] : i \in 1..Len(metaFile)}

\* C34: in every metadata document persisted, after any interleaving of
\* initialize-language, save-draft and submit requests, every file whose
\* status is complete has a pull-request number and URL and a last contributor.
C34_CompleteFilesHavePullRequest ==
  \A doc \in PersistedDocs :
    \A f \in DOMAIN doc.files :
      doc.files[f].status = "complete"
        => /\ doc.files[f].prNumber # NullNum
           /\ doc.files[f].prUrl # NullUrl
           /\ doc.files[f].lastContributor # NullStr

\* A submit marked a file complete in the persisted document, with the pull
\* request it reported.
C34_Witness ==
  /\ metaFile # <<>>
  /\ \E r \in Requests :
       /\ rq[r].kind = "submit" /\ rq[r].pc = "done" /\ Committed(rq[r].metaPut)
       /\ metaFile[1].files[rq[r].file].status = "complete"
       /\ metaFile[1].files[rq[r].file].prNumber = rq[r].response.prNumber
       /\ metaFile[1].files[rq[r].file].lastContributor = rq[r].user

\* The order of the statuses.
StatusRank(status) ==
  CASE status = "not-started" -> 0
    [] status = "in-progress" -> 1
    [] status = "complete" -> 2

\* C36: under any sequence of non-overlapping save-draft and submit requests,
\* from one persisted version of the metadata document to the next no file's
\* status moves backwards in the order not-started, in-progress, complete,
\* and stats.completed does not decrease.
C36_StatusNeverMovesBackwards ==
  \A i \in 1..(Len(metaLog) - 1) :
    LET before == metaLog[i].doc
        after == metaLog[i + 1].doc
    IN  /\ \A f \in DOMAIN before.files :
             /\ f \in DOMAIN after.files
             /\ StatusRank(after.files[f].status) >= StatusRank(before.files[f].status)
        /\ after.stats.completed >= before.stats.completed

\* The pairs of submits of one user that overlapped on the pull request: p's
\* listing was answered and showed no pull request of the user's branch, q then
\* created one, and p's own creation call was served by the platform.
SubmitsRaced ==
  {pq \in Requests \X Requests :
     LET p == pq[1]
         q == pq[2]
     IN  /\ p # q
         /\ rq[p].kind = "submit" /\ rq[q].kind = "submit"
         /\ rq[p].user = rq[q].user
         /\ rq[p].pc = "done" /\ rq[q].pc = "done"
         /\ rq[p].prGet = 200 /\ rq[p].prSeen = NullNum
         /\ rq[q].prCreated # NullNum
         /\ \A fail \in TransientFailures :
              rq[p].response # errorResponse(<<"Failed to create pull request: ",
                                               handleError(fail).message>>)}

\* C35: when two submit requests by the same user overlap, both complete
\* successfully and report the same pull request; neither fails because the
\* other created the pull request between its lookup and its creation call.
C35_OverlappingSubmitsReportOnePR ==
  \A pq \in SubmitsRaced :
    /\ rq[pq[1]].response.success
    /\ rq[pq[2]].response.success
    /\ rq[pq[1]].response.prNumber = rq[pq[2]].response.prNumber

\* What the metadata document records of a file's progress.
ProgressOf(entry) ==
  [status |-> entry.status, lastContributor |-> entry.lastContributor,
   lastCommitSha |-> entry.lastCommitSha, prNumber |-> entry.prNumber,
   prUrl |-> entry.prUrl]

\* C37: a version of the metadata document written by initialize-language over
\* an existing one records, for every file of the existing one that it still
\* lists, the same status, last contributor, commit SHA and pull request.
C37_ReinitializationKeepsProgress ==
  \A i \in 1..(Len(metaLog) - 1) :
    LET before == metaLog[i].doc
        after == metaLog[i + 1].doc
        writer == metaLog[i + 1].by
    IN  (writer \in Requests /\ rq[writer].kind = "init")
          => \A f \in DOMAIN before.files \cap DOMAIN after.files :
               ProgressOf(after.files[f]) = ProgressOf(before.files[f])

\* C38: without an override, once initializeLanguage built the metadata
\* document, the sourceCommitSha it records is the commit every read of the
\* source was served at (the enumeration and the contents translated), and
\* the working translations the run wrote are the translations of the files'
\* contents at that commit, whatever was pushed to the source branch meanwhile.
C38_RecordedCommitIsTheCommitRead ==
  (il.override = 0 /\ il.metadata # <<>>)
    => LET recorded == il.metadata[1].sourceCommitSha
       IN  /\ \A i \in 1..Len(il.reads) : il.reads[i].commit = recorded
           /\ il.files = getSourceFiles(recorded)
           /\ \A i \in 1..Len(il.writes) :
                il.writes[i].folder = "work"
                  => transFiles[il.writes[i].file]
                       = <<translateMarkdown(getFileContent(recorded, il.writes[i].file),
                                             "es")>>

\* The positions of the files reported translating and not yet complete or error.
InFlight ==
  {i \in 1..Len(il.files) :
     LET ev == EventsOf(il.files[i])
     IN  /\ \E k \in 1..Len(ev) : ev[k] = "translating"
         /\ \A k \in 1..Len(ev) : ev[k] \notin {"complete", "error"}}
\* The remote calls of the loop served for file f so far: source reads and writes.
LoopCalls(f) ==
  Len(SelectSeq(il.reads, LAMBDA c : c.file = f))
    + Len(SelectSeq(il.writes, LAMBDA c : c.file = f))

\* C39: initializeLanguage processes the files one at a time in the enumerated
\* order: at most one file is reported translating without being reported
\* complete or error, and it is the file of the current iteration; every
\* file a remote call of the loop was served for, or an event was reported for,
\* other than the current one, is an earlier file with a terminal report, and
\* the events come in the order of the enumeration.
C39_FilesAreProcessedOneAtATime ==
  /\ Cardinality(InFlight) <= 1
  /\ \A i \in InFlight : i = il.idx /\ il.pc \in {"fetch", "translate", "write", "backup"}
  /\ \A i \in 1..Len(il.files) :
       (LoopCalls(il.files[i]) > 0 \/ Len(EventsOf(il.files[i])) > 0)
         => /\ i <= il.idx
            /\ \A j \in 1..(i - 1) :
                 LET ev == EventsOf(il.files[j])
                 IN  Len(ev) > 0 /\ ev[Len(ev)] \in {"complete", "error"}
  /\ \A a, b \in 1..Len(il.events) :
       a < b => \E i, j \in 1..Len(il.files) :
                  /\ i <= j
                  /\ il.files[i] = il.events[a].filename
                  /\ il.files[j] = il.events[b].filename

\* The first file is over, with its reads and writes served, and the second is
\* being written.
C39_Witness ==
  /\ Len(il.files) = 2
  /\ il.idx = 2 /\ il.pc = "backup"
  /\ InFlight = {2}
  /\ EventsOf(il.files[1]) = <<"translating", "complete">>
  /\ LoopCalls(il.files[1]) = 3
  /\ LoopCalls(il.files[2]) = 2

\* The run committed file f to the given folder of the translation branch.
Wrote(f, folder) ==
  \E i \in 1..Len(il.writes) : il.writes[i].file = f /\ il.writes[i].folder = folder

\* C40: after initializeLanguage returned, for every enumerated source file
\* the run wrote the working translation if and only if it wrote the
\* machine-translation backup, and then the two files hold the same text.
C40_LiveAndBackupAreWrittenTogether ==
  il.pc = "returned"
    => \A f \in Enumerated :
         /\ Wrote(f, "work") <=> Wrote(f, "tmp")
         /\ Wrote(f, "work") => transFiles[f] = tmpFiles[f]

====
